---- MODULE Spec2Model ----
(***************************************************************************)
(* Model of the logo compliance checker of campaign_automation             *)
(* (src/src/campaign_automation/compliance_check.py):                      *)
(*   - check_logo_in_image: the per-image detector, as a pure operator of  *)
(*     its arguments and of what the filesystem and OpenCV hand back;      *)
(*   - check_campaign_compliance: the runner over product x ratio x market *)
(*     (added below the detector).                                         *)
(*                                                                         *)
(* Numbers.  Confidence is a float rounded to three decimals in the code;  *)
(* the model keeps it as an integer number of thousandths (0..1000).       *)
(* Hamming distances are naturals.  good_match_threshold is a float; the   *)
(* model keeps it as the exact fraction num/den and only uses dyadic       *)
(* values, for which the float product threshold * distance is exact.      *)
(***************************************************************************)
EXTENDS Integers, Sequences, FiniteSets, TLC

(***************************************************************************)
(* Bounds of the model                                                     *)
(***************************************************************************)
\* largest number of keypoints ORB reports for a logo image in the model
MaxKp == 16
\* largest number of keypoints ORB reports for a campaign image in the model
MaxKp2 == 2
\* largest numbers of products, aspect ratios and markets of a campaign
MaxProducts == 2
MaxRatios == 2
MaxMarkets == 2
\* largest number of files of one run that are not what the generator and the
\* localizer leave behind (and of products without a logo field)
MaxDeviations == 1
MaxEvents == 4

(***************************************************************************)
(* Program constants                                                       *)
(***************************************************************************)
\* min_match_count: int = 10
DefaultMinMatchCount == 10
\* good_match_threshold: float = 0.75, as a fraction
DefaultGoodMatchThreshold == [num |-> 3, den |-> 4]
\* len(good_matches) >= 4 : points needed for a homography
MinHomographyPoints == 4
\* round(confidence, 3): thousandths
ConfidenceScale == 1000

\* Python's None, for string-valued fields (error)
None == "None"
\* Python's None, for the location tuple
NoLocation == <<>>

(***************************************************************************)
(* What the world hands to check_logo_in_image                             *)
(***************************************************************************)
\* A path on disk: no file, a file cv2.imread cannot decode, or an image
\* in which ORB detects kp keypoints (descriptors are None iff kp = 0).
Absent == [kind |-> "absent", kp |-> 0]
Unreadable == [kind |-> "unreadable", kp |-> 0]
Image(n) == [kind |-> "image", kp |-> n]

\* The k=2 nearest neighbours of one logo descriptor, as the sequence of
\* their Hamming distances, nearest first.
\*   <<2,4>> passes the ratio test at 0.75 and sits on the boundary at 0.5
\*   <<3,4>> sits on the boundary at 0.75 (3 < 0.75*4 is false)
\*   <<0,0>> two identical neighbours
MatchPairs2 == {<<2, 4>>, <<3, 4>>, <<0, 0>>}
\* With a single descriptor in the campaign image knnMatch returns one
\* neighbour per logo descriptor.
MatchPairs1 == {<<3>>}

\* s repeated n times
Rep(s, n) == [i \in 1..n |-> s]

\* What bf.knnMatch(des1, des2, k=2) can return for kp1 logo descriptors and
\* kp2 campaign descriptors: one entry per logo descriptor, each with
\* min(2, kp2) neighbours.  The detector's count does not depend on the
\* order of the entries, so one ordering per multiset is enumerated.
KnnMatches(kp1, kp2) ==
    IF kp2 >= 2
    THEN { Rep(<<2, 4>>, a) \o Rep(<<3, 4>>, b) \o Rep(<<0, 0>>, kp1 - a - b) :
             <<a, b>> \in { ab \in (0..kp1) \X (0..kp1) : ab[1] + ab[2] <= kp1 } }
    ELSE { Rep(<<3>>, kp1) }

\* Outcome of cv2.findHomography / perspectiveTransform
FitOutcomes == {"ok", "none", "throws"}
\* Where an exception outside the homography block is raised, if anywhere:
\* in cvtColor / ORB_create / detectAndCompute, or in BFMatcher / knnMatch
RaiseStages == {"none", "features", "match"}
\* a bounding box (x, y, width, height) the homography block can compute
Boxes == {<<5, 7, 20, 10>>}

MinMatchCounts == {1, 3, MinHomographyPoints, DefaultMinMatchCount}
Thresholds == {DefaultGoodMatchThreshold, [num |-> 1, den |-> 2]}

FileStates(maxkp) == {Absent, Unreadable} \cup { Image(n) : n \in 0..maxkp }

\* the matches OpenCV returns for two files (none unless both have descriptors)
MatchesFor(logo, campaign) ==
    IF logo.kind = "image" /\ campaign.kind = "image" /\ logo.kp > 0 /\ campaign.kp > 0
    THEN KnnMatches(logo.kp, campaign.kp)
    ELSE {<<>>}

\* everything one call of check_logo_in_image depends on
Input(c, l, ms, f, b, x, mmc, th) ==
    [campaign |-> c, logo |-> l, matches |-> ms, fit |-> f, box |-> b,
     raises |-> x, min_match_count |-> mmc, good_match_threshold |-> th]

(***************************************************************************)
(* check_logo_in_image                                                     *)
(***************************************************************************)
ErrCampaignNotFound == "Campaign image not found"
ErrLogoNotFound == "Logo image not found"
ErrCampaignUnreadable == "Could not read campaign image"
ErrLogoUnreadable == "Could not read logo image"
ErrNoFeatures == "Not enough features detected in images"
ErrDetection == "Logo detection error"

\* an error return that reports full confidence instead of 0.0
ErrorResult_confident(msg) ==
    [found |-> FALSE, match_count |-> 0, confidence |-> ConfidenceScale,
     location |-> NoLocation, error |-> msg]

\* the dict every error return builds
ErrorResult(msg) ==
    [found |-> FALSE, match_count |-> 0, confidence |-> 0,
     location |-> NoLocation, error |-> msg]

\* the ratio test with <= for <
RatioTest_nonstrict(pair, th) == pair[1] * th.den <= th.num * pair[2]

\* Lowe's ratio test: m.distance < good_match_threshold * n.distance
RatioTest(pair, th) == pair[1] * th.den < th.num * pair[2]

\* the loop keeps the only neighbour of a descriptor that has no second one
GoodMatches_keepsSingles(matches, th) ==
    LET Passes(pair) == Len(pair) = 1 \/ RatioTest(pair, th)
        kept == SelectSeq(matches, Passes)
    IN [i \in 1..Len(kept) |-> kept[i][1]]

\* the loop over matches: keeps m of every pair of two that passes the test
GoodMatches(matches, th) ==
    LET Passes(pair) == Len(pair) = 2 /\ RatioTest(pair, th)
        kept == SelectSeq(matches, Passes)
    IN [i \in 1..Len(kept) |-> kept[i][1]]

\* truncation to three decimals instead of rounding
Round3_truncate(num, den) == (num * ConfidenceScale) \div den

\* round(x, 3) of x = num/den >= 0, in thousandths: nearest, ties to even
Round3(num, den) ==
    LET scaled == num * ConfidenceScale
        q == scaled \div den
        r == scaled % den
    IN IF 2 * r < den THEN q
       ELSE IF 2 * r > den THEN q + 1
       ELSE IF q % 2 = 0 THEN q ELSE q + 1

\* the ratio without the cap min(., 1.0)
Confidence_uncapped(match_count, kp1) ==
    IF kp1 > 0 THEN Round3(match_count, kp1) ELSE 0

\* min(match_count / len(kp1), 1.0) if len(kp1) > 0 else 0.0, then round(., 3)
Confidence(match_count, kp1) ==
    IF kp1 > 0
    THEN IF match_count >= kp1 THEN ConfidenceScale ELSE Round3(match_count, kp1)
    ELSE 0

\* the logo counts as found as soon as one match is good
LogoFound_anyMatch(match_count, min_match_count) == match_count >= 1

\* a strict comparison
LogoFound_strict(match_count, min_match_count) == match_count > min_match_count

\* logo_found = match_count >= min_match_count
LogoFound(match_count, min_match_count) == match_count >= min_match_count

\* the homography block without the len(good_matches) >= 4 guard
Location_unguarded(logo_found, match_count, fit, box) ==
    IF logo_found
    THEN IF fit = "ok" THEN box ELSE NoLocation
    ELSE NoLocation

\* the homography block: location stays None unless the fit gives a matrix
Location(logo_found, match_count, fit, box) ==
    IF logo_found /\ match_count >= MinHomographyPoints
    THEN IF fit = "ok" THEN box ELSE NoLocation
    ELSE NoLocation

\* the homography block without its own try / except
EscapesInnerTry_uncaught(logo_found, match_count, fit) ==
    logo_found /\ match_count >= MinHomographyPoints /\ fit = "throws"

\* whether an exception thrown in the homography block leaves it: the block
\* is wrapped in try / except Exception: pass, so none does
EscapesInnerTry(logo_found, match_count, fit) == FALSE

\* a handler that swallows the exception without reporting it
OuterExcept_silent(msg) == [ErrorResult(msg) EXCEPT !.error = None]

\* the outer except Exception handler
OuterExcept(msg) == ErrorResult(msg)

check_logo_in_image(in) ==
    IF in.campaign.kind = "absent" THEN ErrorResult(ErrCampaignNotFound)
    ELSE IF in.logo.kind = "absent" THEN ErrorResult(ErrLogoNotFound)
    ELSE IF in.campaign.kind = "unreadable" THEN ErrorResult(ErrCampaignUnreadable)
    ELSE IF in.logo.kind = "unreadable" THEN ErrorResult(ErrLogoUnreadable)
    ELSE IF in.raises = "features" THEN OuterExcept(ErrDetection)
    ELSE IF in.logo.kp = 0 \/ in.campaign.kp = 0 THEN ErrorResult(ErrNoFeatures)
    ELSE IF in.raises = "match" THEN OuterExcept(ErrDetection)
    ELSE LET good_matches == GoodMatches(in.matches, in.good_match_threshold)
             match_count == Len(good_matches)
             logo_found == LogoFound(match_count, in.min_match_count)
         IN IF EscapesInnerTry(logo_found, match_count, in.fit)
            THEN OuterExcept(ErrDetection)
            ELSE [found |-> logo_found,
                  match_count |-> match_count,
                  confidence |-> Confidence(match_count, in.logo.kp),
                  location |-> Location(logo_found, match_count, in.fit, in.box),
                  error |-> None]

(***************************************************************************)
(* check_campaign_compliance                                               *)
(***************************************************************************)
\* The campaign file on disk: no file at the resolved path, a file that is
\* not valid YAML (yaml.safe_load raises), a YAML document that is not a
\* mapping (a list, a scalar, an empty file: data.get raises), or a mapping.
CampaignFiles == {"missing", "invalid_yaml", "not_mapping", "ok"}

\* products[].assets.logo of product i; <<>> when the field is absent
LogoFilename(i) == <<"logo", i>>
NoLogoFilename == <<>>

\* The parsed campaign: nP products (those in nologo without assets.logo),
\* nR aspect ratios and nM markets; ids are the positions in the lists.
Campaign(nP, nR, nM, nologo) ==
    [campaign_id |-> "campaign",
     products |-> [i \in 1..nP |->
                     [id |-> i,
                      logo |-> IF i \in nologo THEN NoLogoFilename ELSE LogoFilename(i)]],
     aspect_ratios |-> [i \in 1..nR |-> i],
     markets |-> [i \in 1..nM |-> [market_id |-> i]]]

NoCampaign == Campaign(0, 0, 0, {})

\* image_filename and image_path of a triple, as path components
ImagePath(campaign_id, product_id, aspect_ratio, market_id) ==
    <<"output", campaign_id, product_id, aspect_ratio, market_id,
      <<"campaign", product_id, market_id, aspect_ratio>>>>

\* logo_path = input/assets/{logo_filename}
LogoPath(logo_filename) == <<"input", "assets", logo_filename>>

\* What the disk and OpenCV hold for one candidate image, given the logo
Scene(c, ms, f, x) ==
    [campaign |-> c, matches |-> ms, fit |-> f, raises |-> x, box |-> <<5, 7, 20, 10>>]

NoScene == Scene(Absent, <<>>, "none", "none")

HasDescriptors(file) == file.kind = "image" /\ file.kp > 0

\* the logo file of a product as the generator leaves it, and the other cases
NominalLogo == Image(MaxKp)
LogoFiles == {NominalLogo, Absent, Unreadable, Image(0)}

\* every logo descriptor finds its match in the candidate image
NominalMatches(l) == IF HasDescriptors(l) THEN Rep(<<2, 4>>, l.kp) ELSE <<>>

\* the candidate image as the localizer leaves it: present, decodable, the
\* logo in it
NominalScene(l) == Scene(Image(MaxKp2), NominalMatches(l), "ok", "none")

\* the other cases: no file, undecodable, no features, a fit that throws, an
\* exception in matching, no or few good matches
DeviantScenes(l) ==
    { Scene(c, <<>>, "ok", "none") : c \in {Absent, Unreadable, Image(0)} }
    \cup { Scene(Image(MaxKp2), NominalMatches(l), fx[1], fx[2]) :
             fx \in {<<"throws", "none">>, <<"ok", "match">>} }
    \cup (IF HasDescriptors(l)
          THEN { Scene(Image(MaxKp2), ms, "ok", "none") :
                   ms \in { Rep(<<3, 4>>, l.kp),
                            Rep(<<2, 4>>, MinHomographyPoints)
                               \o Rep(<<3, 4>>, l.kp - MinHomographyPoints) } }
          ELSE {})

Scenes(l) == {NominalScene(l)} \cup DeviantScenes(l)

\* 1 for a file that is not what the generator and the localizer leave
LogoCost(l) == IF l = NominalLogo THEN 0 ELSE 1
SceneCost(s, l) == IF s = NominalScene(l) THEN 0 ELSE 1

\* min_match_count values a run is started with (the workflow and the
\* command line both use the default)
RunMinMatchCounts == {DefaultMinMatchCount}

\* a not-found summary that forgets to count the error
NotFoundSummary_uncounted ==
    [total_checked |-> 0, passed |-> 0, failed |-> 0, errors |-> 0,
     results |-> <<>>, error |-> "Campaign file not found"]

\* the summary returned when the campaign file does not exist; the model
\* writes the summary's absent 'error' key as None
NotFoundSummary ==
    [total_checked |-> 0, passed |-> 0, failed |-> 0, errors |-> 1,
     results |-> <<>>, error |-> "Campaign file not found"]

NoSummary ==
    [total_checked |-> 0, passed |-> 0, failed |-> 0, errors |-> 0,
     results |-> <<>>, error |-> None]

NoResult == [found |-> FALSE, match_count |-> 0, confidence |-> 0,
             location |-> NoLocation, error |-> None]

NoArgs == Input(Absent, Absent, <<>>, "none", <<5, 7, 20, 10>>, "none",
                DefaultMinMatchCount, DefaultGoodMatchThreshold)

VARIABLES
    args, returned, result,       \* the latest call of check_logo_in_image
    campaign_file,                \* the campaign file on disk
    config,                       \* its parsed content
    min_match_count,              \* argument of check_campaign_compliance
    logo_file,                    \* the file at logo_path of the current product
    scene,                        \* the candidate image of the current triple
    deviations,                   \* files met so far that are not nominal
    pc, p, r, m,                  \* position of the runner in its loops
    total_checked, passed, failed, errors, results,
    summary                       \* the returned dict

VARIABLES
    exit_code                     \* exit status of the command line, once it exited

VARIABLES
    wf_pc,                        \* the step CampaignWorkflow.run is about to run
    use_dropbox,                  \* self.use_dropbox and self.dropbox_sync
    output_dir,                   \* ./output on disk
    steps,                        \* the steps run so far, in order
    compliance_stats              \* what step 6.5 got from the checker

VARIABLES
    odd,                          \* the one file of a world that is not nominal
    loud, quiet                   \* a run with verbose = True, and one with False

VARIABLES
    disk,                         \* the localized images under ./output
    localized,                    \* the triple the localizer wrote last
    looked                        \* the triple the runner looked for last

VARIABLES
    localized_images,             \* localized images under ./output, as the report counts them
    summaries,                    \* the compliance summaries of two workflow runs
    reports                       \* the campaign reports the two runs wrote

VARIABLES
    requested_threshold,          \* good_match_threshold the caller of a run asks for
    rotation,                     \* degrees the logo is turned by inside the candidate image
    written,                       \* files a compliance run created, changed or deleted
    validation,                    \* what steps 1 and 2 of the workflow found
    rmtree,                        \* how shutil.rmtree(./output) of the cleanup ended
    processed_files,               \* YamlEventHandler.processed_files
    workflow_runs,                 \* the calls of run_workflow_processor, in order
    event,                         \* the event the observer delivered last
    delivered,                     \* number of events delivered to the handler
    schedule,                      \* campaign.schedule of the loaded campaign file
    validated,                     \* what validate_file returned
    path_arg,                      \* the campaign_file argument as a path
    existing,                      \* the files that exist
    validator_path,                \* the path CampaignValidator resolved
    compliance_path               \* the path check_campaign_compliance resolved

detector == <<args, returned, result>>
world == <<campaign_file, config, min_match_count>>
stats == <<total_checked, passed, failed, errors, results>>
runner == <<logo_file, scene, deviations, pc, p, r, m, stats, summary>>
workflow == <<wf_pc, use_dropbox, output_dir, steps, compliance_stats>>
two_runs == <<odd, loud, quiet>>
reporting == <<localized_images, summaries, reports>>
components == <<disk, localized, looked, reporting, requested_threshold, rotation, written, validation, rmtree, processed_files, workflow_runs, event, delivered, schedule, validated, path_arg, existing, validator_path, compliance_path>>
callers == <<exit_code, workflow, two_runs, components>>
vars == <<detector, world, runner, callers>>

\* sys.exit has not been called
NoExit == <<>>

\* nothing has run yet in the callers of the checker
\* step 6.5 has not come back with a summary
NoStats == [total_checked |-> 0, passed |-> 0, failed |-> 0, errors |-> 0, raised |-> FALSE]

\* every file is what the generator and the localizer leave
NoOdd == [kind |-> "none"]

\* check_campaign_compliance has not been called
NoRun == [ran |-> FALSE, raised |-> FALSE, summary |-> NoSummary, printed |-> 0]

\* no triple
NoTriple == <<>>

\* the runner has not looked for an image
NotLooked == [at |-> NoTriple, skipped |-> FALSE]

\* the components around the checker have done nothing
\* step 7 has not run
NoReport == [written |-> FALSE, localized_images |-> 0, compliance |-> <<>>]

\* the caller passes no good_match_threshold
NotGiven == [num |-> 0, den |-> 1]

NoEvent == <<>>

NoValidation == [campaign |-> "not run", assets |-> "not run"]

NoSchedule == <<>>

NotValidated == [done |-> FALSE, is_valid |-> FALSE, errors |-> <<>>]

NoPath == [absolute |-> FALSE, parts |-> <<>>]

ValidatorIdle ==
    /\ schedule = NoSchedule
    /\ validated = NotValidated

ResolversIdle ==
    /\ path_arg = NoPath
    /\ existing = {}
    /\ validator_path = NoPath
    /\ compliance_path = NoPath

CheckersIdle ==
    /\ requested_threshold = NotGiven
    /\ rotation = 0
    /\ written = {}
    /\ validation = NoValidation
    /\ rmtree = "not called"
    /\ processed_files = {}
    /\ workflow_runs = <<>>
    /\ event = NoEvent
    /\ delivered = 0
    /\ disk = {}
    /\ localized = NoTriple
    /\ looked = NotLooked
    /\ localized_images = 0
    /\ summaries = <<NoStats, NoStats>>
    /\ reports = <<NoReport, NoReport>>

ComponentsIdle ==
    /\ CheckersIdle
    /\ ValidatorIdle
    /\ ResolversIdle

DriversIdle ==
    /\ odd = NoOdd
    /\ loud = NoRun
    /\ quiet = NoRun
    /\ exit_code = NoExit
    /\ wf_pc = "Idle"
    /\ use_dropbox = FALSE
    /\ output_dir = "absent"
    /\ steps = <<>>
    /\ compliance_stats = NoStats

CallersIdle ==
    /\ ComponentsIdle
    /\ odd = NoOdd
    /\ loud = NoRun
    /\ quiet = NoRun
    /\ exit_code = NoExit
    /\ wf_pc = "Idle"
    /\ use_dropbox = FALSE
    /\ output_dir = "absent"
    /\ steps = <<>>
    /\ compliance_stats = NoStats

RunnerIdle ==
    /\ logo_file = NominalLogo
    /\ scene = NoScene
    /\ pc = "Idle"
    /\ p = 1 /\ r = 1 /\ m = 1
    /\ total_checked = 0 /\ passed = 0 /\ failed = 0 /\ errors = 0
    /\ results = <<>>
    /\ summary = NoSummary

(***************************************************************************)
(* Direct calls of check_logo_in_image                                     *)
(***************************************************************************)
InitImage ==
    /\ \E c \in FileStates(MaxKp2), l \in FileStates(MaxKp) :
         \E ms \in MatchesFor(l, c), f \in FitOutcomes, b \in Boxes,
            x \in RaiseStages, mmc \in MinMatchCounts, th \in Thresholds :
             args = Input(c, l, ms, f, b, x, mmc, th)
    /\ returned = FALSE
    /\ result = NoResult
    /\ campaign_file = "missing"
    /\ config = NoCampaign
    /\ min_match_count = DefaultMinMatchCount
    /\ deviations = 0
    /\ RunnerIdle
    /\ CallersIdle

CheckLogoInImage ==
    /\ ~returned
    /\ result' = check_logo_in_image(args)
    /\ returned' = TRUE
    /\ UNCHANGED <<args, world, callers, runner>>

NextImage == CheckLogoInImage

SpecImage == InitImage /\ [][NextImage]_vars

(***************************************************************************)
(* Direct calls of check_logo_in_image with the logo file as the candidate *)
(***************************************************************************)
\* Distances to the second nearest descriptor of the same image: 0 for a
\* descriptor that occurs twice
SecondDistances == {0, 1, 4}

\* knnMatch of the logo's descriptors against themselves: the nearest
\* neighbour of every descriptor is at distance 0; with a single descriptor
\* there is no second neighbour
SelfMatches(kp) ==
    IF kp = 0 THEN {<<>>}
    ELSE IF kp = 1 THEN {<<<<0>>>>}
    ELSE { Rep(<<0, 0>>, ab[1]) \o Rep(<<0, 1>>, ab[2])
             \o Rep(<<0, 4>>, kp - ab[1] - ab[2]) :
             ab \in { n \in (0..kp) \X (0..kp) : n[1] + n[2] <= kp } }

InitSelf ==
    /\ \E kp \in 0..MaxKp :
         \E ms \in SelfMatches(kp), f \in FitOutcomes, b \in Boxes,
            x \in RaiseStages, mmc \in MinMatchCounts, th \in Thresholds :
             args = Input(Image(kp), Image(kp), ms, f, b, x, mmc, th)
    /\ returned = FALSE
    /\ result = NoResult
    /\ campaign_file = "missing"
    /\ config = NoCampaign
    /\ min_match_count = DefaultMinMatchCount
    /\ deviations = 0
    /\ RunnerIdle
    /\ CallersIdle

SpecSelf == InitSelf /\ [][NextImage]_vars

(***************************************************************************)
(* Direct calls of check_logo_in_image on a scene holding the turned logo   *)
(***************************************************************************)
\* quarter turns of the logo inside the candidate image
Rotations == {90, 180, 270}

\* knnMatch of the logo's descriptors against the scene: what ORB computes
\* for the turned logo is OpenCV's, not this repository's, so any number of
\* the logo's descriptors keeps a clearly nearest neighbour in the scene
\* (<<2, 4>> passes the ratio test at 0.75) and the others do not (<<3, 4>>)
RotatedMatches(kp) ==
    { Rep(<<2, 4>>, kept) \o Rep(<<3, 4>>, kp - kept) : kept \in 0..kp }

InitRotated ==
    /\ \E kp \in 0..MaxKp :
         \E ms \in RotatedMatches(kp), f \in FitOutcomes, b \in Boxes,
            x \in RaiseStages, mmc \in MinMatchCounts, th \in Thresholds :
             args = Input(Image(MaxKp2), Image(kp), ms, f, b, x, mmc, th)
    /\ returned = FALSE
    /\ result = NoResult
    /\ campaign_file = "missing"
    /\ config = NoCampaign
    /\ min_match_count = DefaultMinMatchCount
    /\ deviations = 0
    /\ RunnerIdle
    /\ exit_code = NoExit
    /\ wf_pc = "Idle"
    /\ use_dropbox = FALSE
    /\ output_dir = "absent"
    /\ steps = <<>>
    /\ compliance_stats = NoStats
    /\ odd = NoOdd /\ loud = NoRun /\ quiet = NoRun
    /\ disk = {}
    /\ localized = NoTriple
    /\ looked = NotLooked
    /\ localized_images = 0
    /\ summaries = <<NoStats, NoStats>>
    /\ reports = <<NoReport, NoReport>>
    /\ requested_threshold = NotGiven
    /\ rotation \in Rotations
    /\ written = {}
    /\ validation = NoValidation
    /\ rmtree = "not called"
    /\ processed_files = {}
    /\ workflow_runs = <<>>
    /\ event = NoEvent
    /\ delivered = 0
    /\ schedule = NoSchedule
    /\ validated = NotValidated
    /\ path_arg = NoPath
    /\ existing = {}
    /\ validator_path = NoPath
    /\ compliance_path = NoPath

SpecRotated == InitRotated /\ [][NextImage]_vars

(***************************************************************************)
(* Runs of check_campaign_compliance                                       *)
(***************************************************************************)
Init ==
    /\ args = NoArgs
    /\ returned = FALSE
    /\ result = NoResult
    /\ campaign_file \in CampaignFiles
    /\ min_match_count \in RunMinMatchCounts
    /\ IF campaign_file = "ok"
       THEN \E nP \in 0..MaxProducts, nR \in 0..MaxRatios, nM \in 0..MaxMarkets :
              \E nologo \in { S \in SUBSET (1..nP) : Cardinality(S) <= MaxDeviations } :
                  /\ config = Campaign(nP, nR, nM, nologo)
                  /\ deviations = Cardinality(nologo)
       ELSE /\ config = NoCampaign
            /\ deviations = 0
    /\ RunnerIdle
    /\ CallersIdle
    /\ CallersIdle

\* if not campaign_path.exists(): return the not-found summary
CampaignNotFound ==
    /\ pc = "Idle"
    /\ campaign_file = "missing"
    /\ summary' = NotFoundSummary
    /\ pc' = "Done"
    /\ UNCHANGED <<detector, world, callers, logo_file, scene, deviations, p, r, m, stats>>

\* yaml.safe_load raises, or data.get raises on a document that is no mapping:
\* nothing in check_campaign_compliance catches it
CampaignLoadRaises ==
    /\ pc = "Idle"
    /\ campaign_file \in {"invalid_yaml", "not_mapping"}
    /\ pc' = "Raised"
    /\ UNCHANGED <<detector, world, callers, logo_file, scene, deviations, p, r, m, stats, summary>>

\* the campaign is read and the counters are set to zero
LoadCampaign ==
    /\ pc = "Idle"
    /\ campaign_file = "ok"
    /\ pc' = "Product"
    /\ p' = 1 /\ r' = 1 /\ m' = 1
    /\ total_checked' = 0 /\ passed' = 0 /\ failed' = 0 /\ errors' = 0
    /\ results' = <<>>
    /\ UNCHANGED <<detector, world, callers, logo_file, scene, deviations, summary>>

\* a product without a logo is tallied as an error
SkipProduct_counted ==
    /\ pc = "Product"
    /\ p <= Len(config.products)
    /\ config.products[p].logo = NoLogoFilename
    /\ p' = p + 1
    /\ errors' = errors + 1
    /\ UNCHANGED <<detector, world, callers, logo_file, scene, deviations, pc, r, m,
                   total_checked, passed, failed, results, summary>>

\* for product in products: ... if not logo_filename: continue
SkipProduct ==
    /\ pc = "Product"
    /\ p <= Len(config.products)
    /\ config.products[p].logo = NoLogoFilename
    /\ p' = p + 1
    /\ UNCHANGED <<detector, world, callers, logo_file, scene, deviations, pc, r, m, stats, summary>>

\* a product with a logo: logo_path is set and the loops over aspect ratios
\* and markets start (or have nothing to visit)
BeginProduct ==
    /\ pc = "Product"
    /\ p <= Len(config.products)
    /\ config.products[p].logo # NoLogoFilename
    /\ IF Len(config.aspect_ratios) > 0 /\ Len(config.markets) > 0
       THEN \E l \in LogoFiles : \E s \in Scenes(l) :
              /\ deviations + LogoCost(l) + SceneCost(s, l) <= MaxDeviations
              /\ deviations' = deviations + LogoCost(l) + SceneCost(s, l)
              /\ logo_file' = l
              /\ scene' = s
              /\ pc' = "Triple"
              /\ r' = 1 /\ m' = 1
              /\ p' = p
       ELSE /\ p' = p + 1
            /\ UNCHANGED <<logo_file, scene, deviations, pc, r, m>>
    /\ UNCHANGED <<detector, world, callers, stats, summary>>

\* the loop over aspect ratios is left after its first round
NextTriple_firstRatioOnly ==
    IF m < Len(config.markets)
    THEN /\ m' = m + 1
         /\ UNCHANGED <<pc, p, r>>
         /\ \E s \in Scenes(logo_file) :
              /\ deviations + SceneCost(s, logo_file) <= MaxDeviations
              /\ deviations' = deviations + SceneCost(s, logo_file)
              /\ scene' = s
    ELSE /\ pc' = "Product"
         /\ p' = p + 1 /\ r' = 1 /\ m' = 1
         /\ scene' = NoScene
         /\ UNCHANGED deviations

\* the loops are nested the other way: markets outside, aspect ratios inside
NextTriple_ratiosInside ==
    IF r < Len(config.aspect_ratios)
    THEN /\ r' = r + 1
         /\ UNCHANGED <<pc, p, m>>
         /\ \E s \in Scenes(logo_file) :
              /\ deviations + SceneCost(s, logo_file) <= MaxDeviations
              /\ deviations' = deviations + SceneCost(s, logo_file)
              /\ scene' = s
    ELSE IF m < Len(config.markets)
    THEN /\ m' = m + 1 /\ r' = 1
         /\ UNCHANGED <<pc, p>>
         /\ \E s \in Scenes(logo_file) :
              /\ deviations + SceneCost(s, logo_file) <= MaxDeviations
              /\ deviations' = deviations + SceneCost(s, logo_file)
              /\ scene' = s
    ELSE /\ pc' = "Product"
         /\ p' = p + 1 /\ r' = 1 /\ m' = 1
         /\ scene' = NoScene
         /\ UNCHANGED deviations

\* the loops move to the next market, else the next aspect ratio, else the
\* next product; the candidate image of the next triple is whatever the disk
\* holds
NextTriple ==
    IF m < Len(config.markets)
    THEN /\ m' = m + 1
         /\ UNCHANGED <<pc, p, r>>
         /\ \E s \in Scenes(logo_file) :
              /\ deviations + SceneCost(s, logo_file) <= MaxDeviations
              /\ deviations' = deviations + SceneCost(s, logo_file)
              /\ scene' = s
    ELSE IF r < Len(config.aspect_ratios)
    THEN /\ r' = r + 1 /\ m' = 1
         /\ UNCHANGED <<pc, p>>
         /\ \E s \in Scenes(logo_file) :
              /\ deviations + SceneCost(s, logo_file) <= MaxDeviations
              /\ deviations' = deviations + SceneCost(s, logo_file)
              /\ scene' = s
    ELSE /\ pc' = "Product"
         /\ p' = p + 1 /\ r' = 1 /\ m' = 1
         /\ scene' = NoScene
         /\ UNCHANGED deviations

\* the image is counted before its existence is tested
SkipImage_counted ==
    /\ pc = "Triple"
    /\ scene.campaign.kind = "absent"
    /\ total_checked' = total_checked + 1
    /\ NextTriple
    /\ UNCHANGED <<detector, world, callers, logo_file, passed, failed, errors, results, summary>>

\* if not Path(image_path).exists(): continue
SkipImage ==
    /\ pc = "Triple"
    /\ scene.campaign.kind = "absent"
    /\ NextTriple
    /\ UNCHANGED <<detector, world, callers, logo_file, stats, summary>>

\* the arguments the runner calls check_logo_in_image with: the threshold is
\* not passed, so it is the default
RunnerInput ==
    Input(scene.campaign, logo_file, scene.matches, scene.fit, scene.box,
          scene.raises, min_match_count, DefaultGoodMatchThreshold)

\* result_entry = {product_id, aspect_ratio, market_id, image_path, logo_path, **result}
ResultEntry(res) ==
    LET product == config.products[p]
        aspect_ratio == config.aspect_ratios[r]
        market_id == config.markets[m].market_id
    IN [product_id |-> product.id,
        aspect_ratio |-> aspect_ratio,
        market_id |-> market_id,
        image_path |-> ImagePath(config.campaign_id, product.id, aspect_ratio, market_id),
        logo_path |-> LogoPath(product.logo),
        found |-> res.found,
        match_count |-> res.match_count,
        confidence |-> res.confidence,
        location |-> res.location,
        error |-> res.error]

\* if result['error']: a non-empty string
Truthy(error) == error # None /\ error # ""

\* the check saves the candidate image with the logo outlined next to it
CheckImage_savesOutline ==
    /\ pc = "Triple"
    /\ scene.campaign.kind # "absent"
    /\ args' = RunnerInput
    /\ result' = check_logo_in_image(RunnerInput)
    /\ returned' = TRUE
    /\ total_checked' = total_checked + 1
    /\ results' = Append(results, ResultEntry(result'))
    /\ IF Truthy(result'.error)
       THEN errors' = errors + 1 /\ UNCHANGED <<passed, failed>>
       ELSE IF result'.found
       THEN passed' = passed + 1 /\ UNCHANGED <<failed, errors>>
       ELSE failed' = failed + 1 /\ UNCHANGED <<passed, errors>>
    /\ written' = IF result'.location # NoLocation
                  THEN written \cup {ResultEntry(result').image_path}
                  ELSE written
    /\ NextTriple
    /\ UNCHANGED <<world, logo_file, summary, exit_code, workflow, two_runs,
                   disk, localized, looked, reporting, requested_threshold, rotation, validation, rmtree, processed_files, workflow_runs, event, delivered, schedule, validated, path_arg, existing, validator_path, compliance_path>>

\* the tally looks at the verdict only: a result with an error is counted as
\* failed
CheckImage_verdictOnly ==
    /\ pc = "Triple"
    /\ scene.campaign.kind # "absent"
    /\ args' = RunnerInput
    /\ result' = check_logo_in_image(RunnerInput)
    /\ returned' = TRUE
    /\ total_checked' = total_checked + 1
    /\ results' = Append(results, ResultEntry(result'))
    /\ IF result'.found
       THEN passed' = passed + 1 /\ UNCHANGED <<failed, errors>>
       ELSE failed' = failed + 1 /\ UNCHANGED <<passed, errors>>
    /\ NextTriple
    /\ UNCHANGED <<world, callers, logo_file, summary>>

\* the tally tests the error and the verdict separately ("if" for "elif"), so
\* a result with an error is counted under errors and under failed
CheckImage_twoIfs ==
    /\ pc = "Triple"
    /\ scene.campaign.kind # "absent"
    /\ args' = RunnerInput
    /\ result' = check_logo_in_image(RunnerInput)
    /\ returned' = TRUE
    /\ total_checked' = total_checked + 1
    /\ results' = Append(results, ResultEntry(result'))
    /\ errors' = IF Truthy(result'.error) THEN errors + 1 ELSE errors
    /\ IF result'.found
       THEN passed' = passed + 1 /\ UNCHANGED failed
       ELSE failed' = failed + 1 /\ UNCHANGED passed
    /\ NextTriple
    /\ UNCHANGED <<world, callers, logo_file, summary>>

\* the image exists: it is counted, checked, recorded and tallied
CheckImage ==
    /\ pc = "Triple"
    /\ scene.campaign.kind # "absent"
    /\ args' = RunnerInput
    /\ result' = check_logo_in_image(RunnerInput)
    /\ returned' = TRUE
    /\ total_checked' = total_checked + 1
    /\ results' = Append(results, ResultEntry(result'))
    /\ IF Truthy(result'.error)
       THEN errors' = errors + 1 /\ UNCHANGED <<passed, failed>>
       ELSE IF result'.found
       THEN passed' = passed + 1 /\ UNCHANGED <<failed, errors>>
       ELSE failed' = failed + 1 /\ UNCHANGED <<passed, errors>>
    /\ NextTriple
    /\ UNCHANGED <<world, callers, logo_file, summary>>

\* after the last product: return the counters and the results
Return ==
    /\ pc = "Product"
    /\ p > Len(config.products)
    /\ summary' = [total_checked |-> total_checked, passed |-> passed,
                   failed |-> failed, errors |-> errors,
                   results |-> results, error |-> None]
    /\ pc' = "Done"
    /\ UNCHANGED <<detector, world, callers, logo_file, scene, deviations, p, r, m, stats>>

(***************************************************************************)
(* The command line of compliance_check.py                                 *)
(***************************************************************************)
ExitSuccess == 0
ExitFailure == 1

\* the exit status looks at the errors only
ExitCode_errorsOnly(st) ==
    IF st.errors > 0 THEN ExitFailure ELSE ExitSuccess

\* if stats['failed'] > 0 or stats['errors'] > 0: sys.exit(1) else: sys.exit(0)
ExitCode(st) ==
    IF st.failed > 0 \/ st.errors > 0 THEN ExitFailure ELSE ExitSuccess

\* check_campaign_compliance returned its summary: exit by the counts
MainExit ==
    /\ pc = "Done"
    /\ exit_code = NoExit
    /\ exit_code' = <<ExitCode(summary)>>
    /\ UNCHANGED <<detector, world, runner, two_runs, components, workflow>>

\* check_campaign_compliance raised: except Exception ... sys.exit(1)
MainExitOnException ==
    /\ pc = "Raised"
    /\ exit_code = NoExit
    /\ exit_code' = <<ExitFailure>>
    /\ UNCHANGED <<detector, world, runner, two_runs, components, workflow>>

Next ==
    \/ CampaignNotFound
    \/ CampaignLoadRaises
    \/ LoadCampaign
    \/ SkipProduct
    \/ BeginProduct
    \/ SkipImage
    \/ CheckImage
    \/ Return
    \/ MainExit
    \/ MainExitOnException

Spec == Init /\ [][Next]_vars

(***************************************************************************)
(* CampaignWorkflow.run                                                    *)
(***************************************************************************)
\* The workflow is modelled step by step; what a step calls is seen through
\* its outcome only (returned, or raised into the step's try block).
InitWorkflow ==
    /\ args = NoArgs
    /\ returned = FALSE
    /\ result = NoResult
    /\ campaign_file = "ok"
    /\ config = NoCampaign
    /\ min_match_count = DefaultMinMatchCount
    /\ deviations = 0
    /\ RunnerIdle
    /\ exit_code = NoExit
    /\ odd = NoOdd /\ loud = NoRun /\ quiet = NoRun
    /\ ComponentsIdle
    /\ wf_pc = "Cleanup"
    /\ use_dropbox \in BOOLEAN
    /\ output_dir \in {"absent", "present"}
    /\ steps = <<>>
    /\ compliance_stats = NoStats

\* a step has run and the workflow moves on
Ran(step, next) ==
    /\ steps' = Append(steps, step)
    /\ wf_pc' = next

\* shutil.rmtree returns with the tree gone, or raises at the first entry it
\* cannot remove, before or after it removed others
RmtreeOutcomes == {"removed", "raised, nothing removed", "raised, part removed"}

\* the cleanup is left to the folder step: run starts with step 0
Cleanup_notDone ==
    /\ wf_pc = "Cleanup"
    /\ IF output_dir = "present"
       THEN /\ UNCHANGED <<output_dir, rmtree, processed_files, workflow_runs, event, delivered, schedule, validated, path_arg, existing, validator_path, compliance_path>>
            /\ Ran("cleanup", "Download")
       ELSE /\ wf_pc' = "Download"
            /\ UNCHANGED <<output_dir, steps, rmtree, processed_files, workflow_runs, event, delivered, schedule, validated, path_arg, existing, validator_path, compliance_path>>
    /\ UNCHANGED <<detector, world, runner, two_runs, exit_code, use_dropbox, compliance_stats,
                   disk, localized, looked, reporting, requested_threshold, rotation,
                   written, validation, processed_files, workflow_runs, event, delivered, schedule, validated, path_arg, existing, validator_path, compliance_path>>

\* CLEANUP: shutil.rmtree(./output) when it exists; a failure is a warning
Cleanup ==
    /\ wf_pc = "Cleanup"
    /\ IF output_dir = "present"
       THEN /\ \E outcome \in RmtreeOutcomes :
                 /\ rmtree' = outcome
                 /\ output_dir' = IF outcome = "removed" THEN "absent" ELSE "present"
            /\ Ran("cleanup", "Download")
       ELSE /\ wf_pc' = "Download"
            /\ UNCHANGED <<output_dir, steps, rmtree, processed_files, workflow_runs, event, delivered, schedule, validated, path_arg, existing, validator_path, compliance_path>>
    /\ UNCHANGED <<detector, world, runner, two_runs, exit_code, use_dropbox, compliance_stats,
                   disk, localized, looked, reporting, requested_threshold, rotation,
                   written, validation, processed_files, workflow_runs, event, delivered, schedule, validated, path_arg, existing, validator_path, compliance_path>>

\* STEP 0: download ./input from Dropbox when enabled; a failure is a warning
StepDownload ==
    /\ wf_pc = "Download"
    /\ IF use_dropbox
       THEN Ran("download", "Validate")
       ELSE wf_pc' = "Validate" /\ UNCHANGED steps
    /\ UNCHANGED <<detector, world, runner, two_runs, components, exit_code, use_dropbox, output_dir,
                   compliance_stats>>

\* step 1 prints the validation errors and goes on to the asset check
StepValidate_goesOn ==
    /\ wf_pc = "Validate"
    /\ \E is_valid \in BOOLEAN :
         /\ validation' = [validation EXCEPT !.campaign = IF is_valid THEN "valid" ELSE "invalid"]
         /\ Ran("validate", "Assets")
    /\ UNCHANGED <<detector, world, runner, two_runs, exit_code, use_dropbox, output_dir,
                   compliance_stats, disk, localized, looked, reporting,
                   requested_threshold, rotation, written, rmtree, processed_files, workflow_runs, event, delivered, schedule, validated, path_arg, existing, validator_path, compliance_path>>

\* STEP 1: campaign_validator.validate_file; not valid: return False
StepValidate ==
    /\ wf_pc = "Validate"
    /\ \E is_valid \in BOOLEAN :
         /\ validation' = [validation EXCEPT !.campaign = IF is_valid THEN "valid" ELSE "invalid"]
         /\ Ran("validate", IF is_valid THEN "Assets" ELSE "ReturnedFalse")
    /\ UNCHANGED <<detector, world, runner, two_runs, exit_code, use_dropbox, output_dir,
                   compliance_stats, disk, localized, looked, reporting,
                   requested_threshold, rotation, written, rmtree, processed_files, workflow_runs, event, delivered, schedule, validated, path_arg, existing, validator_path, compliance_path>>

\* STEP 2: assets_validator.validate; not valid: return False. The summary
\* read afterwards has no 'assets_found' key when the campaign file cannot be
\* loaded any more, and summary['assets_found'] then raises out of run.
StepAssets ==
    /\ wf_pc = "Assets"
    /\ \E outcome \in {"valid", "invalid", "no_summary"} :
         /\ validation' = [validation EXCEPT
                             !.assets = IF outcome = "invalid" THEN "invalid" ELSE "valid"]
         /\ Ran("assets", CASE outcome = "valid" -> "Folders"
                            [] outcome = "invalid" -> "ReturnedFalse"
                            [] outcome = "no_summary" -> "Raised")
    /\ UNCHANGED <<detector, world, runner, two_runs, exit_code, use_dropbox, output_dir,
                   compliance_stats, disk, localized, looked, reporting,
                   requested_threshold, rotation, written, rmtree, processed_files, workflow_runs, event, delivered, schedule, validated, path_arg, existing, validator_path, compliance_path>>

\* STEP 3: folder_generator.generate_base_folders; an exception: return False
StepFolders ==
    /\ wf_pc = "Folders"
    /\ \E created \in BOOLEAN :
         IF created
         THEN output_dir' = "present" /\ Ran("folders", "Prompts")
         ELSE UNCHANGED output_dir /\ Ran("folders", "ReturnedFalse")
    /\ UNCHANGED <<detector, world, runner, two_runs, components, exit_code, use_dropbox, compliance_stats>>

\* STEP 4: generate_prompts_for_campaign; an exception: return False
StepPrompts ==
    /\ wf_pc = "Prompts"
    /\ \E generated \in BOOLEAN :
         Ran("prompts", IF generated THEN "Images" ELSE "ReturnedFalse")
    /\ UNCHANGED <<detector, world, runner, two_runs, components, exit_code, use_dropbox, output_dir,
                   compliance_stats>>

\* STEP 5: generate_hero_image per product and aspect ratio; every failure
\* is counted and the loop goes on
StepImages ==
    /\ wf_pc = "Images"
    /\ Ran("images", "Localize")
    /\ UNCHANGED <<detector, world, runner, two_runs, components, exit_code, use_dropbox, output_dir,
                   compliance_stats>>

\* STEP 6: localize_campaign_images; an exception is reported and the
\* workflow goes on
StepLocalize ==
    /\ wf_pc = "Localize"
    /\ Ran("localize", "Compliance")
    /\ UNCHANGED <<detector, world, runner, two_runs, components, exit_code, use_dropbox, output_dir,
                   compliance_stats>>

\* the compliance step returns False when an image failed or could not be
\* checked, or when the checker raised
StepCompliance_gate ==
    /\ wf_pc = "Compliance"
    /\ \/ /\ compliance_stats' = [NoStats EXCEPT !.raised = TRUE]
          /\ Ran("compliance", "ReturnedFalse")
       \/ \E np \in 0..(MaxProducts * MaxRatios * MaxMarkets) :
            \E nf \in 0..(MaxProducts * MaxRatios * MaxMarkets - np) :
              \E ne \in 0..(MaxProducts * MaxRatios * MaxMarkets - np - nf) :
                 /\ compliance_stats' =
                      [total_checked |-> np + nf + ne, passed |-> np,
                       failed |-> nf, errors |-> ne, raised |-> FALSE]
                 /\ Ran("compliance", IF nf + ne > 0 THEN "ReturnedFalse" ELSE "Report")
       \/ /\ compliance_stats' =
               [total_checked |-> NotFoundSummary.total_checked,
                passed |-> NotFoundSummary.passed,
                failed |-> NotFoundSummary.failed,
                errors |-> NotFoundSummary.errors, raised |-> FALSE]
          /\ Ran("compliance", "ReturnedFalse")
    /\ UNCHANGED <<detector, world, runner, two_runs, components, exit_code, use_dropbox, output_dir>>

\* STEP 6.5: check_campaign_compliance(campaign_file, min_match_count=10,
\* verbose=True) inside try/except Exception. It raises, or returns a summary
\* whose counters add up (at most one check per triple), or the not-found
\* summary; the counts are only printed.
StepCompliance ==
    /\ wf_pc = "Compliance"
    /\ \/ compliance_stats' = [NoStats EXCEPT !.raised = TRUE]
       \/ \E np \in 0..(MaxProducts * MaxRatios * MaxMarkets) :
            \E nf \in 0..(MaxProducts * MaxRatios * MaxMarkets - np) :
              \E ne \in 0..(MaxProducts * MaxRatios * MaxMarkets - np - nf) :
                 compliance_stats' =
                   [total_checked |-> np + nf + ne, passed |-> np,
                    failed |-> nf, errors |-> ne, raised |-> FALSE]
       \/ compliance_stats' =
            [total_checked |-> NotFoundSummary.total_checked,
             passed |-> NotFoundSummary.passed,
             failed |-> NotFoundSummary.failed,
             errors |-> NotFoundSummary.errors, raised |-> FALSE]
    /\ Ran("compliance", "Report")
    /\ UNCHANGED <<detector, world, runner, two_runs, components, exit_code, use_dropbox, output_dir>>

\* STEP 7: generate_campaign_report inside try/except Exception
StepReport ==
    /\ wf_pc = "Report"
    /\ Ran("report", "Upload")
    /\ UNCHANGED <<detector, world, runner, two_runs, components, exit_code, use_dropbox, output_dir,
                   compliance_stats>>

\* STEP 8: upload ./output to Dropbox when enabled, inside try/except
\* Exception; then WORKFLOW COMPLETE and return True
StepUpload ==
    /\ wf_pc = "Upload"
    /\ IF use_dropbox
       THEN Ran("upload", "ReturnedTrue")
       ELSE wf_pc' = "ReturnedTrue" /\ UNCHANGED steps
    /\ UNCHANGED <<detector, world, runner, two_runs, components, exit_code, use_dropbox, output_dir,
                   compliance_stats>>

NextWorkflow ==
    \/ Cleanup
    \/ StepDownload
    \/ StepValidate
    \/ StepAssets
    \/ StepFolders
    \/ StepPrompts
    \/ StepImages
    \/ StepLocalize
    \/ StepCompliance
    \/ StepReport
    \/ StepUpload

\* run is sequential code: a step that can run does run
SpecWorkflow == InitWorkflow /\ [][NextWorkflow]_vars /\ WF_vars(NextWorkflow)

(***************************************************************************)
(* check_campaign_compliance as a function of its arguments and the files  *)
(***************************************************************************)
\* A world is the campaign file, its content, and the files the run reads:
\* all nominal but at most one, the logo of one product or the candidate
\* image of one triple.
OddLogo(i, l) == [kind |-> "logo", product |-> i, file |-> l]
OddScene(t, s) == [kind |-> "scene", at |-> t, scene |-> s]

LogoFileOf(w, i) ==
    IF w.odd.kind = "logo" /\ w.odd.product = i THEN w.odd.file ELSE NominalLogo

SceneAt(w, t) ==
    IF w.odd.kind = "scene" /\ w.odd.at = t
    THEN w.odd.scene
    ELSE NominalScene(LogoFileOf(w, t[1]))

\* the triples in the order of the three nested loops
AllTriples(cfg) ==
    LET nR == Len(cfg.aspect_ratios)
        nM == Len(cfg.markets)
    IN [i \in 1..(Len(cfg.products) * nR * nM) |->
          <<((i - 1) \div (nR * nM)) + 1, (((i - 1) \div nM) % nR) + 1, ((i - 1) % nM) + 1>>]

\* those the loops reach: the products without a logo are left by continue
TriplesVisited(cfg) ==
    LET HasLogo(t) == cfg.products[t[1]].logo # NoLogoFilename
    IN SelectSeq(AllTriples(cfg), HasLogo)

\* print calls made under "if verbose:"
Lines(verbose, n) == IF verbose THEN n ELSE 0

\* result_entry of the triple t
EntryAt(cfg, t, res) ==
    LET product == cfg.products[t[1]]
        aspect_ratio == cfg.aspect_ratios[t[2]]
        market_id == cfg.markets[t[3]].market_id
    IN [product_id |-> product.id,
        aspect_ratio |-> aspect_ratio,
        market_id |-> market_id,
        image_path |-> ImagePath(cfg.campaign_id, product.id, aspect_ratio, market_id),
        logo_path |-> LogoPath(product.logo),
        found |-> res.found,
        match_count |-> res.match_count,
        confidence |-> res.confidence,
        location |-> res.location,
        error |-> res.error]

\* the passed counter is advanced inside the "if verbose:" block
Tally_underVerbose(fr, entry, verbose) ==
    LET counted == [fr EXCEPT !.total_checked = @ + 1,
                              !.results = Append(@, entry),
                              !.printed = @ + Lines(verbose, 3)]
    IN IF Truthy(entry.error) THEN [counted EXCEPT !.errors = @ + 1]
       ELSE IF entry.found THEN [counted EXCEPT !.passed = @ + Lines(verbose, 1)]
       ELSE [counted EXCEPT !.failed = @ + 1]

\* total_checked += 1 ... results.append(result_entry) ... the tally; three
\* print calls when verbose ("Checking:", the verdict, an empty line)
Tally(fr, entry, verbose) ==
    LET counted == [fr EXCEPT !.total_checked = @ + 1,
                              !.results = Append(@, entry),
                              !.printed = @ + Lines(verbose, 3)]
    IN IF Truthy(entry.error) THEN [counted EXCEPT !.errors = @ + 1]
       ELSE IF entry.found THEN [counted EXCEPT !.passed = @ + 1]
       ELSE [counted EXCEPT !.failed = @ + 1]

\* the body of the innermost loop at the triple t
Visit(fr, w, t, verbose) ==
    LET image == SceneAt(w, t)
        logo == LogoFileOf(w, t[1])
    IN IF image.campaign.kind = "absent"
       THEN [fr EXCEPT !.printed = @ + Lines(verbose, 1)]
       ELSE Tally(fr,
                  EntryAt(w.config, t,
                          check_logo_in_image(
                              Input(image.campaign, logo, image.matches, image.fit,
                                    image.box, image.raises, w.min_match_count,
                                    DefaultGoodMatchThreshold))),
                  verbose)

RECURSIVE Walk(_, _, _, _, _)
Walk(fr, w, ts, i, verbose) ==
    IF i > Len(ts) THEN fr
    ELSE Walk(Visit(fr, w, ts[i], verbose), w, ts, i + 1, verbose)

\* the whole call: what it returns or that it raised, and how many print
\* calls it made
check_campaign_compliance(w, verbose) ==
    IF w.campaign_file = "missing"
    THEN [ran |-> TRUE, raised |-> FALSE, summary |-> NotFoundSummary,
          printed |-> Lines(verbose, 4)]
    ELSE IF w.campaign_file \in {"invalid_yaml", "not_mapping"}
    THEN [ran |-> TRUE, raised |-> TRUE, summary |-> NoSummary,
          printed |-> Lines(verbose, 4)]
    ELSE LET logoless == Len(w.config.products)
                           - Cardinality({ i \in 1..Len(w.config.products) :
                                             w.config.products[i].logo # NoLogoFilename })
             start == [total_checked |-> 0, passed |-> 0, failed |-> 0, errors |-> 0,
                       results |-> <<>>,
                       printed |-> Lines(verbose, 4 + 5 + logoless)]
             end == Walk(start, w, TriplesVisited(w.config), 1, verbose)
         IN [ran |-> TRUE, raised |-> FALSE,
             summary |-> [total_checked |-> end.total_checked, passed |-> end.passed,
                          failed |-> end.failed, errors |-> end.errors,
                          results |-> end.results, error |-> None],
             printed |-> end.printed
                           + Lines(verbose, 7 + (IF end.errors > 0 THEN 1 ELSE 0)
                                              + (IF end.total_checked > 0 THEN 1 ELSE 0))]

World == [campaign_file |-> campaign_file, config |-> config,
          min_match_count |-> min_match_count, odd |-> odd]

InitTwoRuns ==
    /\ args = NoArgs
    /\ returned = FALSE
    /\ result = NoResult
    /\ campaign_file \in CampaignFiles
    /\ min_match_count \in RunMinMatchCounts
    /\ deviations = 0
    /\ IF campaign_file = "ok"
       THEN \E nP \in 0..MaxProducts, nR \in 0..MaxRatios, nM \in 0..MaxMarkets :
              \E nologo \in { S \in SUBSET (1..nP) : Cardinality(S) <= MaxDeviations } :
                 /\ config = Campaign(nP, nR, nM, nologo)
                 /\ \/ odd = NoOdd
                    \/ \E i \in (1..nP) \ nologo : \E l \in LogoFiles \ {NominalLogo} :
                         odd = OddLogo(i, l)
                    \/ \E i \in (1..nP) \ nologo, j \in 1..nR, k \in 1..nM :
                         \E s \in DeviantScenes(NominalLogo) :
                            odd = OddScene(<<i, j, k>>, s)
       ELSE /\ config = NoCampaign
            /\ odd = NoOdd
    /\ RunnerIdle
    /\ ComponentsIdle
    /\ loud = NoRun
    /\ quiet = NoRun
    /\ exit_code = NoExit
    /\ wf_pc = "Idle"
    /\ use_dropbox = FALSE
    /\ output_dir = "absent"
    /\ steps = <<>>
    /\ compliance_stats = NoStats

\* check_campaign_compliance(campaign_file, min_match_count, verbose=True)
RunLoud ==
    /\ ~loud.ran
    /\ loud' = check_campaign_compliance(World, TRUE)
    /\ UNCHANGED <<detector, world, runner, components, exit_code, workflow, odd, quiet>>

\* the same call on the same files with verbose=False
RunQuiet ==
    /\ ~quiet.ran
    /\ quiet' = check_campaign_compliance(World, FALSE)
    /\ UNCHANGED <<detector, world, runner, components, exit_code, workflow, odd, loud>>

NextTwoRuns ==
    \/ RunLoud
    \/ RunQuiet

SpecTwoRuns == InitTwoRuns /\ [][NextTwoRuns]_vars

(***************************************************************************)
(* localize_campaign_images and the runner on one output folder            *)
(***************************************************************************)
\* localized_filename and output_path of a triple in localize_campaign_images,
\* as path components
LocalizedPath_baseName(campaign_id, product_id, aspect_ratio, market_id) ==
    <<"output", campaign_id, product_id, aspect_ratio, market_id,
      <<"campaign", product_id, aspect_ratio, market_id>>>>

LocalizedPath(campaign_id, product_id, aspect_ratio, market_id) ==
    <<"output", campaign_id, product_id, aspect_ratio, market_id,
      <<"campaign", product_id, market_id, aspect_ratio>>>>

\* the ids of the triple at positions t of the campaign
IdsAt(cfg, t) ==
    <<cfg.products[t[1]].id, cfg.aspect_ratios[t[2]], cfg.markets[t[3]].market_id>>

InitPaths ==
    /\ args = NoArgs
    /\ returned = FALSE
    /\ result = NoResult
    /\ campaign_file = "ok"
    /\ min_match_count = DefaultMinMatchCount
    /\ deviations = 0
    /\ \E nP \in 1..MaxProducts, nR \in 1..MaxRatios, nM \in 1..MaxMarkets :
         config = Campaign(nP, nR, nM, {})
    /\ RunnerIdle
    /\ CallersIdle

\* localize_image succeeded for one triple: the image is written at
\* output_path
LocalizeImage ==
    /\ \E i \in 1..Len(config.products), j \in 1..Len(config.aspect_ratios),
          k \in 1..Len(config.markets) :
         LET ids == IdsAt(config, <<i, j, k>>)
         IN /\ localized' = <<i, j, k>>
            /\ disk' = disk \cup {LocalizedPath(config.campaign_id, ids[1], ids[2], ids[3])}
    /\ localized = NoTriple
    /\ UNCHANGED <<detector, world, runner, exit_code, workflow, two_runs, reporting, looked,
                   requested_threshold, rotation, written, validation, rmtree, processed_files, workflow_runs, event, delivered, schedule, validated, path_arg, existing, validator_path, compliance_path>>

\* localize_image raised, or the base image was missing: nothing is written
LocalizeFails ==
    /\ localized = NoTriple
    /\ \E i \in 1..Len(config.products), j \in 1..Len(config.aspect_ratios),
          k \in 1..Len(config.markets) :
         localized' = <<0, i, j, k>>
    /\ UNCHANGED <<detector, world, runner, exit_code, workflow, two_runs, reporting, disk, looked,
                   requested_threshold, rotation, written, validation, rmtree, processed_files, workflow_runs, event, delivered, schedule, validated, path_arg, existing, validator_path, compliance_path>>

\* the runner builds image_path of a triple and tests Path(image_path).exists()
RunnerLooks ==
    /\ localized # NoTriple
    /\ looked = NotLooked
    /\ \E i \in 1..Len(config.products), j \in 1..Len(config.aspect_ratios),
          k \in 1..Len(config.markets) :
         LET ids == IdsAt(config, <<i, j, k>>)
         IN looked' = [at |-> <<i, j, k>>,
                       skipped |-> ImagePath(config.campaign_id, ids[1], ids[2], ids[3])
                                      \notin disk]
    /\ UNCHANGED <<detector, world, runner, exit_code, workflow, two_runs, reporting, disk, localized,
                   requested_threshold, rotation, written, validation, rmtree, processed_files, workflow_runs, event, delivered, schedule, validated, path_arg, existing, validator_path, compliance_path>>

NextPaths ==
    \/ LocalizeImage
    \/ LocalizeFails
    \/ RunnerLooks

SpecPaths == InitPaths /\ [][NextPaths]_vars

(***************************************************************************)
(* generate_campaign_report after the compliance step, in two runs         *)
(***************************************************************************)
\* all that the report says about logo compliance: a fixed line of the
\* section "Workflow Summary"
ComplianceSection ==
    <<"6.5. [DONE] **Logo Compliance Check** - OpenCV feature detection verified logo presence">>

\* generate_campaign_report(campaign_file, output_file, print_to_console):
\* the report is built from the campaign file and from the files found under
\* ./output
generate_campaign_report(images) ==
    [written |-> TRUE, localized_images |-> images, compliance |-> ComplianceSection]

\* what step 6.5 can come back with when at most n images exist
StatsUpTo(n) ==
    { [total_checked |-> c[1] + c[2] + c[3], passed |-> c[1], failed |-> c[2],
       errors |-> c[3], raised |-> FALSE] :
        c \in { x \in (0..n) \X (0..n) \X (0..n) : x[1] + x[2] + x[3] <= n } }
    \cup {[NoStats EXCEPT !.raised = TRUE]}

\* two runs of the workflow on one campaign of one product and one aspect
\* ratio, with the same localized images on disk
InitReports ==
    /\ args = NoArgs
    /\ returned = FALSE
    /\ result = NoResult
    /\ campaign_file = "ok"
    /\ min_match_count = DefaultMinMatchCount
    /\ deviations = 0
    /\ config = Campaign(1, 1, MaxMarkets, {})
    /\ RunnerIdle
    /\ exit_code = NoExit
    /\ wf_pc = "Idle"
    /\ use_dropbox = FALSE
    /\ output_dir = "present"
    /\ steps = <<>>
    /\ compliance_stats = NoStats
    /\ odd = NoOdd /\ loud = NoRun /\ quiet = NoRun
    /\ disk = {}
    /\ localized = NoTriple
    /\ looked = NotLooked
    /\ requested_threshold = NotGiven
    /\ rotation = 0
    /\ written = {}
    /\ validation = NoValidation
    /\ rmtree = "not called"
    /\ processed_files = {}
    /\ workflow_runs = <<>>
    /\ event = NoEvent
    /\ delivered = 0
    /\ schedule = NoSchedule
    /\ validated = NotValidated
    /\ path_arg = NoPath
    /\ existing = {}
    /\ validator_path = NoPath
    /\ compliance_path = NoPath
    /\ localized_images \in 0..MaxMarkets
    /\ \E a \in StatsUpTo(localized_images), b \in StatsUpTo(localized_images) :
         summaries = <<a, b>>
    /\ reports = <<NoReport, NoReport>>

\* step 7 of one of the runs: the call does not get compliance_stats
WriteReport ==
    /\ \E i \in 1..2 :
         /\ ~reports[i].written
         /\ reports' = [reports EXCEPT ![i] = generate_campaign_report(localized_images)]
    /\ UNCHANGED <<detector, world, runner, exit_code, workflow, two_runs,
                   disk, localized, looked, localized_images, summaries,
                   requested_threshold, rotation, written, validation, rmtree, processed_files, workflow_runs, event, delivered, schedule, validated, path_arg, existing, validator_path, compliance_path>>

NextReports ==
    \/ WriteReport

SpecReports == InitReports /\ [][NextReports]_vars

(***************************************************************************)
(* Calls of check_campaign_compliance with a good_match_threshold          *)
(***************************************************************************)
InitOptions ==
    /\ args = NoArgs
    /\ returned = FALSE
    /\ result = NoResult
    /\ campaign_file \in CampaignFiles
    /\ min_match_count \in RunMinMatchCounts
    /\ IF campaign_file = "ok"
       THEN \E nP \in 0..MaxProducts, nR \in 0..MaxRatios, nM \in 0..MaxMarkets :
              \E nologo \in { S \in SUBSET (1..nP) : Cardinality(S) <= MaxDeviations } :
                  /\ config = Campaign(nP, nR, nM, nologo)
                  /\ deviations = Cardinality(nologo)
       ELSE /\ config = NoCampaign
            /\ deviations = 0
    /\ logo_file = NominalLogo
    /\ scene = NoScene
    /\ pc = "Call"
    /\ p = 1 /\ r = 1 /\ m = 1
    /\ total_checked = 0 /\ passed = 0 /\ failed = 0 /\ errors = 0
    /\ results = <<>>
    /\ summary = NoSummary
    /\ exit_code = NoExit
    /\ wf_pc = "Idle"
    /\ use_dropbox = FALSE
    /\ output_dir = "absent"
    /\ steps = <<>>
    /\ compliance_stats = NoStats
    /\ odd = NoOdd /\ loud = NoRun /\ quiet = NoRun
    /\ disk = {}
    /\ localized = NoTriple
    /\ looked = NotLooked
    /\ localized_images = 0
    /\ summaries = <<NoStats, NoStats>>
    /\ reports = <<NoReport, NoReport>>
    /\ requested_threshold \in {NotGiven} \cup Thresholds
    /\ rotation = 0
    /\ written = {}
    /\ validation = NoValidation
    /\ rmtree = "not called"
    /\ processed_files = {}
    /\ workflow_runs = <<>>
    /\ event = NoEvent
    /\ delivered = 0
    /\ schedule = NoSchedule
    /\ validated = NotValidated
    /\ path_arg = NoPath
    /\ existing = {}
    /\ validator_path = NoPath
    /\ compliance_path = NoPath

\* the call names only parameters of the signature (campaign_file,
\* min_match_count, verbose): the body starts
BindArguments ==
    /\ pc = "Call"
    /\ requested_threshold = NotGiven
    /\ pc' = "Idle"
    /\ UNCHANGED <<detector, world, callers, logo_file, scene, deviations, p, r, m,
                   stats, summary>>

\* the call passes good_match_threshold, which the signature does not have:
\* TypeError, before anything is read
UnexpectedKeyword ==
    /\ pc = "Call"
    /\ requested_threshold # NotGiven
    /\ pc' = "Raised"
    /\ UNCHANGED <<detector, world, callers, logo_file, scene, deviations, p, r, m,
                   stats, summary>>

NextOptions ==
    \/ BindArguments
    \/ UnexpectedKeyword
    \/ CampaignNotFound
    \/ CampaignLoadRaises
    \/ LoadCampaign
    \/ SkipProduct
    \/ BeginProduct
    \/ SkipImage
    \/ CheckImage
    \/ Return

SpecOptions == InitOptions /\ [][NextOptions]_vars

(***************************************************************************)
(* Properties of check_logo_in_image                                       *)
(***************************************************************************)
Max(a, b) == IF a >= b THEN a ELSE b
Min(a, b) == IF a <= b THEN a ELSE b
Abs(a) == IF a >= 0 THEN a ELSE -a

\* C1: every returned result with a non-null error has found = false,
\* match_count = 0 and confidence = 0.0, whichever return path produced it.
C1_ErrorImpliesEmptyResult ==
    (returned /\ result.error # None) =>
        (result.found = FALSE /\ result.match_count = 0 /\ result.confidence = 0)

\* a caught exception (outer handler) produced the result
C1_Witness ==
    returned /\ result.error = ErrDetection /\ args.raises = "match"

\* C5: for a result without error, found is true exactly when match_count
\* reaches min_match_count, whatever the confidence and the location are.
C5_FoundIffEnoughMatches ==
    (returned /\ result.error = None) =>
        (result.found <=> result.match_count >= args.min_match_count)

\* exactly min_match_count (the default 10) matches: found, and no location
C5_Witness ==
    /\ returned /\ result.error = None
    /\ args.min_match_count = DefaultMinMatchCount
    /\ result.match_count = DefaultMinMatchCount
    /\ result.found /\ result.location = NoLocation
    /\ result.confidence < ConfidenceScale

\* C6: the confidence returned lies in [0.0, 1.0]; and for the logo's
\* keypoint count (zero included) the confidence of every match count lies
\* in [0.0, 1.0] and does not decrease when the match count grows.
C6_ConfidenceBoundedMonotone ==
    returned =>
        /\ result.confidence \in 0..ConfidenceScale
        /\ \A n \in 0..(MaxKp + 2) :
              /\ Confidence(n, args.logo.kp) \in 0..ConfidenceScale
              /\ n > 0 => Confidence(n - 1, args.logo.kp) <= Confidence(n, args.logo.kp)

\* every logo descriptor matched: confidence is exactly 1.0
C6_Witness ==
    /\ returned /\ result.error = None
    /\ result.match_count = args.logo.kp
    /\ result.confidence = ConfidenceScale

\* C7 as stated: without error, confidence = min(match_count / max(1, kp), 1.0)
C7_ConfidenceExact ==
    (returned /\ result.error = None) =>
        LET k == Max(1, args.logo.kp)
        IN result.confidence * k = ConfidenceScale * Min(result.match_count, k)

\* C7 amended: without error, confidence is min(match_count / max(1, kp), 1.0)
\* rounded to three decimals: it differs from it by at most 0.0005.
C7_ConfidenceRounded ==
    (returned /\ result.error = None) =>
        LET k == Max(1, args.logo.kp)
        IN 2 * Abs(result.confidence * k - ConfidenceScale * Min(result.match_count, k)) <= k

\* 2 of 3 logo keypoints matched: 0.667, not 2/3
C7_Witness ==
    /\ returned /\ result.error = None
    /\ args.logo.kp = 3 /\ result.match_count = 2
    /\ result.confidence = 667

\* C8: location is non-null only if found = true and at least 4 good matches
\* exist (so never with an error, never when not found, never under 4 matches).
C8_LocationOnlyIfFoundAndFour ==
    (returned /\ result.location # NoLocation) =>
        /\ result.found
        /\ result.match_count >= MinHomographyPoints
        /\ result.error = None

\* found with fewer than 4 matches (min_match_count < 4) although the fit
\* would give a box: no location
C8_Witness ==
    /\ returned /\ result.found
    /\ args.min_match_count < MinHomographyPoints
    /\ result.match_count < MinHomographyPoints
    /\ args.fit = "ok"
    /\ result.location = NoLocation

\* the homography block is entered: the images are read, no exception is
\* raised before it, the logo is found and there are at least 4 matches
EntersHomography(in) ==
    LET fitted == check_logo_in_image([in EXCEPT !.fit = "ok"])
    IN fitted.error = None /\ fitted.found /\ fitted.match_count >= MinHomographyPoints

\* C9: when the homography fit returns no matrix or throws, location and error
\* are null and found, match_count and confidence are what a successful fit
\* would have given.
C9_FitFailureKeepsVerdict ==
    (returned /\ args.fit # "ok" /\ EntersHomography(args)) =>
        LET ok == check_logo_in_image([args EXCEPT !.fit = "ok"])
        IN /\ result.location = NoLocation
           /\ result.error = None
           /\ result.found = ok.found
           /\ result.match_count = ok.match_count
           /\ result.confidence = ok.confidence
           /\ result.found = (result.match_count >= args.min_match_count)

\* the fit throws with 10 or more matches: found, no location, no error
C9_Witness ==
    /\ returned /\ args.fit = "throws" /\ EntersHomography(args)
    /\ result.found /\ result.match_count >= DefaultMinMatchCount
    /\ result.location = NoLocation /\ result.error = None

(***************************************************************************)
(* Properties of check_campaign_compliance                                 *)
(***************************************************************************)
Last(seq) == seq[Len(seq)]

\* C2: when the campaign file does not exist the run returns at once the
\* summary total_checked = 0, passed = 0, failed = 0, errors = 1 with no
\* results; no image is checked and nothing is raised.
C2_MissingCampaignSummary ==
    campaign_file = "missing" =>
        /\ pc \in {"Idle", "Done"}
        /\ ~returned
        /\ total_checked = 0 /\ results = <<>>
        /\ pc = "Done" =>
             /\ summary.total_checked = 0
             /\ summary.passed = 0
             /\ summary.failed = 0
             /\ summary.errors = 1
             /\ summary.results = <<>>

\* the run on a missing campaign file has returned
C2_Witness ==
    campaign_file = "missing" /\ pc = "Done" /\ summary.errors = 1

\* C3: when the campaign file exists but is malformed (invalid YAML, or not a
\* mapping) the run ends returning a summary with errors = 1,
\* total_checked = 0 and no results, and raises nothing.
C3_MalformedCampaignSummary ==
    (campaign_file \in {"invalid_yaml", "not_mapping"} /\ pc # "Idle") =>
        /\ pc = "Done"
        /\ summary.errors = 1
        /\ summary.total_checked = 0
        /\ summary.results = <<>>

\* the files cannot be read, or are read and an exception is raised in
\* feature extraction or in matching
MissingOrUndecodable(in) ==
    \/ in.campaign.kind \in {"absent", "unreadable"}
    \/ in.logo.kind \in {"absent", "unreadable"}

RaisesBeforeVerification(in) ==
    /\ ~MissingOrUndecodable(in)
    /\ \/ in.raises = "features"
       \/ in.raises = "match" /\ HasDescriptors(in.logo) /\ HasDescriptors(in.campaign)

\* an exception is raised inside the geometric verification
RaisesInVerification(in) ==
    /\ ~MissingOrUndecodable(in)
    /\ in.raises = "none"
    /\ in.fit = "throws"
    /\ EntersHomography(in)

\* the step checks the current triple, its result is recorded with an error
\* and counted under errors, and the runner is at the next triple
CountedAsError ==
    /\ Truthy(result'.error)
    /\ results' = Append(results, ResultEntry(result'))
    /\ total_checked' = total_checked + 1
    /\ errors' = errors + 1
    /\ passed' = passed /\ failed' = failed
    /\ pc' \in {"Triple", "Product"}
    /\ <<p', r', m'>> # <<p, r, m>>

CountedAsPassed ==
    /\ result'.error = None /\ result'.found
    /\ results' = Append(results, ResultEntry(result'))
    /\ total_checked' = total_checked + 1
    /\ passed' = passed + 1
    /\ errors' = errors /\ failed' = failed
    /\ pc' \in {"Triple", "Product"}
    /\ <<p', r', m'>> # <<p, r, m>>

C10_AbsentImageSkipped ==
    [][ (pc = "Triple" /\ scene.campaign.kind = "absent")
        => /\ results' = results
           /\ total_checked' = total_checked
           /\ passed' = passed /\ failed' = failed /\ errors' = errors
           /\ pc' \in {"Triple", "Product"}
           /\ <<p', r', m'>> # <<p, r, m>> ]_vars

\* a full campaign, every product with a logo, returned with exactly one
\* triple missing from the counts and from the results
C10_Witness ==
    /\ pc = "Done"
    /\ Len(config.products) = MaxProducts
    /\ Len(config.aspect_ratios) = MaxRatios
    /\ Len(config.markets) = MaxMarkets
    /\ \A i \in 1..MaxProducts : config.products[i].logo # NoLogoFilename
    /\ summary.total_checked = MaxProducts * MaxRatios * MaxMarkets - 1
    /\ summary.passed = summary.total_checked
    /\ Len(summary.results) = summary.total_checked
    /\ summary.failed = 0 /\ summary.errors = 0

\* the products of the campaign that have an assets.logo field
WithLogo == { i \in 1..Len(config.products) : config.products[i].logo # NoLogoFilename }

\* C11: a product with no assets.logo field is skipped as a whole and is not
\* an error: the step calls check_logo_in_image for none of its triples and
\* changes none of the counters nor the results, no result ever belongs to
\* such a product, and the triples of the other products are still checked
\* (a run that met no other irregular file returns one passed check for every
\* triple of every product with a logo, and no error).
C11_LogolessProductSkipped ==
    /\ [][ (pc = "Product" /\ p <= Len(config.products)
               /\ config.products[p].logo = NoLogoFilename)
           => /\ UNCHANGED <<detector, stats>>
              /\ pc' = "Product" /\ p' = p + 1 ]_vars
    /\ [](\A i \in 1..Len(results) : results[i].product_id \in WithLogo)
    /\ []((pc = "Done" /\ campaign_file = "ok"
             /\ deviations = Len(config.products) - Cardinality(WithLogo))
          => /\ summary.total_checked
                  = Cardinality(WithLogo) * Len(config.aspect_ratios) * Len(config.markets)
             /\ summary.passed = summary.total_checked
             /\ summary.errors = 0 /\ summary.failed = 0)

\* a campaign whose first product has no logo has returned: only the triples
\* of the other products were checked, and nothing is counted as an error
C11_Witness ==
    /\ pc = "Done"
    /\ Len(config.products) = MaxProducts
    /\ config.products[1].logo = NoLogoFilename
    /\ summary.total_checked = (MaxProducts - 1) * MaxRatios * MaxMarkets
    /\ summary.total_checked > 0
    /\ \A i \in 1..Len(summary.results) : summary.results[i].product_id # 1
    /\ summary.errors = 0

\* C12: each check appends exactly one result and adds one to total_checked
\* and to exactly one of passed, failed, errors: errors when the result has
\* an error, else passed when found, else failed. So total_checked = passed +
\* failed + errors = len(results) throughout the loops and in every summary
\* returned after the campaign was loaded.
C12_OneResultOneTally ==
    /\ [][ (pc = "Triple" /\ scene.campaign.kind # "absent")
           => /\ Len(results') = Len(results) + 1
              /\ SubSeq(results', 1, Len(results)) = results
              /\ total_checked' = total_checked + 1
              /\ LET entry == Last(results')
                 IN <<passed' - passed, failed' - failed, errors' - errors>> =
                      IF entry.error # None THEN <<0, 0, 1>>
                      ELSE IF entry.found THEN <<1, 0, 0>>
                      ELSE <<0, 1, 0>> ]_vars
    /\ [](/\ total_checked = passed + failed + errors
          /\ total_checked = Len(results)
          /\ (pc = "Done" /\ campaign_file = "ok")
               => /\ summary.total_checked
                       = summary.passed + summary.failed + summary.errors
                  /\ summary.total_checked = Len(summary.results))

\* a returned summary that holds a passed check and one that ended in an
\* error
C12_Witness ==
    /\ pc = "Done"
    /\ summary.errors > 0
    /\ summary.passed > 0
    /\ summary.total_checked = Len(summary.results)
    /\ \E i \in 1..Len(summary.results) : summary.results[i].error # None

\* C13: P products (all with a logo), R aspect ratios and M markets, every
\* image present and every check finding its logo: the summary has
\* total_checked = passed = P * R * M, failed = 0 and errors = 0.
C13_FullCampaignCounts ==
    LET all == Len(config.products) * Len(config.aspect_ratios) * Len(config.markets)
    IN (pc = "Done" /\ campaign_file = "ok" /\ WithLogo = 1..Len(config.products))
       => /\ deviations = 0
             => /\ summary.total_checked = all
                /\ summary.passed = all
                /\ summary.failed = 0 /\ summary.errors = 0
          /\ (Len(summary.results) = all
                /\ \A i \in 1..all : summary.results[i].found)
             => /\ summary.total_checked = all
                /\ summary.passed = all
                /\ summary.failed = 0 /\ summary.errors = 0

\* the largest campaign has returned with every triple passed
C13_Witness ==
    /\ pc = "Done"
    /\ deviations = 0
    /\ Len(config.products) = MaxProducts
    /\ Len(config.aspect_ratios) = MaxRatios
    /\ Len(config.markets) = MaxMarkets
    /\ summary.total_checked = MaxProducts * MaxRatios * MaxMarkets
    /\ summary.passed = summary.total_checked
    /\ summary.failed = 0 /\ summary.errors = 0

\* the position of a result in the loops: ids are the positions in the lists
TripleOf(entry) == <<entry.product_id, entry.aspect_ratio, entry.market_id>>

\* lexicographic order of triples: product, then aspect ratio, then market
Before(a, b) ==
    \/ a[1] < b[1]
    \/ a[1] = b[1] /\ a[2] < b[2]
    \/ a[1] = b[1] /\ a[2] = b[2] /\ a[3] < b[3]

\* C14: the runner visits the triples in nested order, products outside,
\* then aspect ratios, then markets, each in the order of the configuration:
\* every step moves the position forward in that order, a result is recorded
\* for the triple the runner stands at, and results lists the checked triples
\* in exactly that order (each result before the next one; the order is
\* transitive).
C14_NestedOrder ==
    /\ [][ (pc = "Triple" /\ pc' = "Triple")
           => \/ p' = p /\ r' = r /\ m' = m + 1
              \/ p' = p /\ r' = r + 1 /\ m' = 1 /\ m = Len(config.markets) ]_vars
    /\ [][ (pc = "Triple" /\ pc' = "Product")
           => /\ m = Len(config.markets) /\ r = Len(config.aspect_ratios)
              /\ p' = p + 1 ]_vars
    /\ [][ results' # results
           => TripleOf(Last(results')) =
                <<config.products[p].id, config.aspect_ratios[r],
                  config.markets[m].market_id>> ]_vars
    /\ [](\A i \in 1..(Len(results) - 1) :
             Before(TripleOf(results[i]), TripleOf(results[i + 1])))

\* the largest campaign has returned: the second result is the second market
\* of the first aspect ratio, and the first result of the second aspect ratio
\* comes after every market of the first
C14_Witness ==
    /\ pc = "Done"
    /\ Len(summary.results) = MaxProducts * MaxRatios * MaxMarkets
    /\ TripleOf(summary.results[1]) = <<1, 1, 1>>
    /\ TripleOf(summary.results[2]) = <<1, 1, 2>>
    /\ TripleOf(summary.results[MaxMarkets + 1]) = <<1, 2, 1>>
    /\ TripleOf(summary.results[MaxRatios * MaxMarkets + 1]) = <<2, 1, 1>>

\* the runner stands at a triple whose check reaches the descriptor test with
\* no descriptors in the logo, in the candidate image, or in both
NoDescriptors ==
    /\ pc = "Triple"
    /\ logo_file.kind = "image" /\ scene.campaign.kind = "image"
    /\ scene.raises # "features"
    /\ logo_file.kp = 0 \/ scene.campaign.kp = 0

\* what a check without descriptors does, but for the text of the error
NoDescriptorsStep(text) ==
    NoDescriptors
    => /\ result'.error = text
       /\ ~result'.found /\ result'.match_count = 0
       /\ Last(results').error = text
       /\ errors' = errors + 1
       /\ failed' = failed /\ passed' = passed

\* C15 as stated: the error is the string "Not enough features detected".
C15_ErrorTextAsStated ==
    [][NoDescriptorsStep("Not enough features detected")]_vars

\* C15: when ORB yields no descriptors for the logo or for the candidate
\* image the check returns found = false, match_count = 0 and the error
\* "Not enough features detected in images", and the runner counts the image
\* under errors, not under failed.
C15_NoFeaturesIsAnError ==
    [][NoDescriptorsStep("Not enough features detected in images")]_vars

\* a run has returned after a check without descriptors, counted as an error
C15_Witness ==
    /\ pc = "Done"
    /\ returned
    /\ args.logo.kind = "image" /\ args.campaign.kind = "image"
    /\ args.logo.kp = 0 \/ args.campaign.kp = 0
    /\ Last(summary.results).error = ErrNoFeatures
    /\ summary.errors >= 1 /\ summary.failed = 0

(***************************************************************************)
(* Properties of the command line                                          *)
(***************************************************************************)
\* C16: the exit status of the compliance checker is non-zero exactly when
\* the summary has failed + errors > 0 and zero exactly when failed = 0 and
\* errors = 0; the summary of a missing campaign file (errors = 1) makes it
\* non-zero.
C16_ExitSignalsFailures ==
    (pc = "Done" /\ exit_code # NoExit)
    => /\ exit_code[1] # 0 <=> summary.failed + summary.errors > 0
       /\ exit_code[1] = 0 <=> (summary.failed = 0 /\ summary.errors = 0)
       /\ campaign_file = "missing" => exit_code[1] # 0

\* the command line has exited non-zero on a summary with failed checks and
\* no errors
C16_Witness ==
    /\ pc = "Done"
    /\ exit_code = <<ExitFailure>>
    /\ summary.failed > 0 /\ summary.errors = 0

(***************************************************************************)
(* Properties of CampaignWorkflow.run                                      *)
(***************************************************************************)
\* C17: compliance failure is advisory: once run reaches the compliance step
\* the next step is the report step, whatever the summary's failed and errors
\* counts are and also when the checker raised; from the report step on run
\* never returns False nor raises, and it does return True.
C17_ComplianceIsAdvisory ==
    /\ [][ wf_pc = "Compliance" => wf_pc' = "Report" ]_vars
    /\ [][ wf_pc = "Report" => (wf_pc' = "Upload" /\ Last(steps') = "report") ]_vars
    /\ [][ wf_pc = "Upload" => wf_pc' = "ReturnedTrue" ]_vars
    /\ (wf_pc = "Compliance") ~> (wf_pc = "ReturnedTrue")

\* run has returned True after a compliance step that came back with failed
\* images and with errors, and the report step ran after it
C17_Witness ==
    /\ wf_pc = "ReturnedTrue"
    /\ compliance_stats.failed > 0 /\ compliance_stats.errors > 0
    /\ \E i \in 1..Len(steps) : \E j \in 1..Len(steps) :
         i < j /\ steps[i] = "compliance" /\ steps[j] = "report"

Distinct(matches) ==
    { i \in 1..Len(matches) : Len(matches[i]) = 2 /\ matches[i][2] > 0 }

\* C19 as stated: with the logo file as the candidate image the check
\* returns found = true and match_count = the number of logo keypoints.
C19_SelfMatchAsStated ==
    returned => (result.found /\ result.match_count = args.logo.kp)

\* C19: with the logo file as the candidate image, a check that returns no
\* error matches exactly the logo keypoints that have a second nearest
\* descriptor at a distance above zero, and finds the logo exactly when these
\* are at least min_match_count; so found = true and match_count = the number
\* of logo keypoints when the logo has two or more keypoints, no fewer than
\* min_match_count, and no two equal descriptors. A logo without keypoints
\* gives the error of a check without descriptors.
C19_SelfMatch ==
    returned =>
        /\ result.error = None
             => /\ result.match_count = Cardinality(Distinct(args.matches))
                /\ result.found <=> result.match_count >= args.min_match_count
                /\ (/\ args.logo.kp >= 2
                    /\ args.logo.kp >= args.min_match_count
                    /\ Cardinality(Distinct(args.matches)) = args.logo.kp)
                   => (result.found /\ result.match_count = args.logo.kp)
        /\ (args.logo.kp = 0 /\ args.raises # "features")
             => result.error = ErrNoFeatures

\* the check has returned on a logo of MaxKp keypoints with no two equal
\* descriptors: found, and every keypoint matched
C19_Witness ==
    /\ returned
    /\ args.logo.kp = MaxKp
    /\ Cardinality(Distinct(args.matches)) = MaxKp
    /\ result.found
    /\ result.match_count = MaxKp

\* the pairs the ratio test has to reject: no second neighbour, or
\* distance(best) not below threshold * distance(second best)
Rejected(matches, th) ==
    { i \in 1..Len(matches) :
        \/ Len(matches[i]) < 2
        \/ matches[i][1] * th.den >= th.num * matches[i][2] }

\* C20: the matcher accepts the best match of a logo descriptor if and only
\* if distance(best) < threshold * distance(second best), strictly; a
\* descriptor without two nearest neighbours contributes no match, and no
\* descriptor contributes more than one match.
C20_RatioTest ==
    (returned /\ result.error = None)
    => /\ result.match_count
            = Len(args.matches)
                - Cardinality(Rejected(args.matches, args.good_match_threshold))
       /\ result.match_count <= args.logo.kp
       /\ (\A i \in 1..Len(args.matches) : Len(args.matches[i]) < 2)
            => result.match_count = 0

\* a check at threshold 0.75 has returned on matches that hold a pair on the
\* boundary (3 against 0.75 * 4) and a pair below it: only the latter counts
C20_Witness ==
    /\ returned
    /\ result.error = None
    /\ args.good_match_threshold = DefaultGoodMatchThreshold
    /\ \E i \in 1..Len(args.matches) : args.matches[i] = <<3, 4>>
    /\ \E i \in 1..Len(args.matches) : args.matches[i] = <<2, 4>>
    /\ result.match_count
         = Cardinality({ i \in 1..Len(args.matches) : args.matches[i] = <<2, 4>> })

(***************************************************************************)
(* Properties of the localizer and the runner together                     *)
(***************************************************************************)
\* C21: for every triple the path the localizer writes its image to is the
\* path the runner reads as candidate image,
\* output/{campaign_id}/{product_id}/{aspect_ratio}/{market_id}/
\* campaign_{product_id}_{market_id}_{aspect_ratio}.png, so the runner never
\* skips an image the localizer produced (and skips every other one).
C21_SamePath ==
    /\ \A i \in 1..Len(config.products), j \in 1..Len(config.aspect_ratios),
          k \in 1..Len(config.markets) :
         LET ids == IdsAt(config, <<i, j, k>>)
         IN /\ LocalizedPath(config.campaign_id, ids[1], ids[2], ids[3])
                 = ImagePath(config.campaign_id, ids[1], ids[2], ids[3])
            /\ ImagePath(config.campaign_id, ids[1], ids[2], ids[3])
                 = <<"output", config.campaign_id, ids[1], ids[2], ids[3],
                     <<"campaign", ids[1], ids[3], ids[2]>>>>
    /\ looked # NotLooked => (looked.skipped <=> looked.at # localized)

\* the runner has looked for the image the localizer wrote, at a triple whose
\* market and aspect ratio differ, and did not skip it
C21_Witness ==
    /\ looked # NotLooked
    /\ looked.at = localized
    /\ looked.at[2] # looked.at[3]
    /\ ~looked.skipped

(***************************************************************************)
(* Properties of the campaign report                                       *)
(***************************************************************************)
\* C22: the compliance summary is consumed by the report generator: two runs
\* whose compliance summaries differ write reports that differ in what they
\* say about compliance.
C22_ReportShowsCompliance ==
    (reports[1].written /\ reports[2].written /\ summaries[1] # summaries[2])
    => reports[1].compliance # reports[2].compliance

(***************************************************************************)
(* Properties of the options of a compliance run                           *)
(***************************************************************************)
\* C23: good_match_threshold is an option of the compliance run like
\* min_match_count: a run that is given a threshold is carried out (on a
\* readable campaign file it does not raise), and every per-image check of a
\* run uses the threshold chosen for the run, 0.75 when none is given.
C23_ThresholdIsAnOption ==
    /\ (campaign_file \in {"ok", "missing"}) => pc # "Raised"
    /\ returned =>
         args.good_match_threshold =
            IF requested_threshold = NotGiven
            THEN DefaultGoodMatchThreshold
            ELSE requested_threshold

(***************************************************************************)
(* Properties of checks on a turned logo                                   *)
(***************************************************************************)
\* the logo descriptors that pass the ratio test of the call
Passing(in) ==
    { i \in 1..Len(in.matches) :
        /\ Len(in.matches[i]) = 2
        /\ in.matches[i][1] * in.good_match_threshold.den
             < in.good_match_threshold.num * in.matches[i][2] }

WatchedPaths ==
    { <<"i", "n", "p", "u", "t", "/", "a", ".", "y", "a", "m", "l">>,
      <<"i", "n", "p", "u", "t", "/", "s", "u", "b", "/", "b", ".", "y", "m", "l">>,
      <<"i", "n", "p", "u", "t", "/", "c", ".", "t", "x", "t">>,
      <<"i", "n", "p", "u", "t", "/", "d", ".", "Y", "A", "M", "L">>,
      <<"i", "n", "p", "u", "t", "/", "y", "a", "m", "l">>,
      <<"i", "n", "p", "u", "t", "/", "e", ".", "y", "a", "m", "l">> }

YamlSuffix == <<".", "y", "a", "m", "l">>
YmlSuffix == <<".", "y", "m", "l">>

\* str.endswith(suffix)
EndsWith(s, suffix) ==
    /\ Len(s) >= Len(suffix)
    /\ SubSeq(s, Len(s) - Len(suffix) + 1, Len(s)) = suffix

\* os.path.basename(path): what follows the last separator
Basename(path) ==
    LET seps == { i \in 1..Len(path) : path[i] = "/" }
        last == IF seps = {} THEN 0 ELSE CHOOSE i \in seps : \A k \in seps : k <= i
    IN  SubSeq(path, last + 1, Len(path))

\* filename.endswith('.yaml') or filename.endswith('.yml')
IsYaml(path) ==
    \/ EndsWith(Basename(path), YamlSuffix)
    \/ EndsWith(Basename(path), YmlSuffix)

EventKinds == {"created", "modified"}

Events == [kind : EventKinds, is_directory : BOOLEAN, src_path : WatchedPaths]

\* run_workflow_processor returns data with workflow_success true or false,
\* or raises subprocess.TimeoutExpired, or raises another exception
RunOutcomes == {"success", "failed", "timeout", "error"}

InitWatcher ==
    /\ args = NoArgs
    /\ returned = FALSE
    /\ result = NoResult
    /\ campaign_file = "ok"
    /\ config = NoCampaign
    /\ min_match_count = DefaultMinMatchCount
    /\ deviations = 0
    /\ RunnerIdle
    /\ CallersIdle

\* the path is marked only once its run has succeeded
process_yaml_file_marksOnSuccess(file_path) ==
    IF file_path \in processed_files
    THEN UNCHANGED <<processed_files, workflow_runs>>
    ELSE \E outcome \in RunOutcomes :
           /\ processed_files' = IF outcome = "success"
                                 THEN processed_files \cup {file_path}
                                 ELSE processed_files
           /\ workflow_runs' = Append(workflow_runs,
                                      [file_path |-> file_path, outcome |-> outcome,
                                       processed_at_start |-> processed_files])

\* process_yaml_file: return when the path is in processed_files; otherwise
\* add it, then call run_workflow_processor, whose failures are caught
process_yaml_file(file_path) ==
    IF file_path \in processed_files
    THEN UNCHANGED <<processed_files, workflow_runs>>
    ELSE LET marked == processed_files \cup {file_path}
         IN  /\ processed_files' = marked
             /\ \E outcome \in RunOutcomes :
                  workflow_runs' = Append(workflow_runs,
                                          [file_path |-> file_path, outcome |-> outcome,
                                           processed_at_start |-> marked])

\* the observer thread takes the next event from its queue and calls the
\* handler's method for it, one event at a time
Deliver(ev) ==
    /\ delivered < MaxEvents
    /\ delivered' = delivered + 1
    /\ event' = ev
    /\ UNCHANGED <<detector, world, runner, exit_code, workflow, two_runs,
                   disk, localized, looked, reporting, requested_threshold, rotation,
                   written, validation, rmtree,
                   schedule, validated, path_arg, existing, validator_path, compliance_path>>

\* on_created: directories and files that are not YAML are only logged
on_created ==
    \E ev \in Events :
      /\ ev.kind = "created"
      /\ Deliver(ev)
      /\ IF ev.is_directory \/ ~IsYaml(ev.src_path)
         THEN UNCHANGED <<processed_files, workflow_runs>>
         ELSE process_yaml_file(ev.src_path)

\* on_modified: the same filter, without the logging
on_modified ==
    \E ev \in Events :
      /\ ev.kind = "modified"
      /\ Deliver(ev)
      /\ IF ev.is_directory \/ ~IsYaml(ev.src_path)
         THEN UNCHANGED <<processed_files, workflow_runs>>
         ELSE process_yaml_file(ev.src_path)

NextWatcher ==
    \/ on_created
    \/ on_modified

SpecWatcher == InitWatcher /\ [][NextWatcher]_vars

(***************************************************************************)
(* CampaignValidator: the schedule section                                 *)
(***************************************************************************)
\* A date text is modelled by the numbers strptime('%Y-%m-%d') reads from it.
Years == {2024, 2025}
Months == {2, 12, 13}
Days == {1, 29, 30}

DateTexts == [kind : {"str"}, year : Years, month : Months, day : Days]

\* yaml.safe_load turns an unquoted 2025-01-01 into a date object, not a str
DateObject == [kind |-> "date", year |-> 2025, month |-> 12, day |-> 1]

Missing == [kind |-> "missing", year |-> 0, month |-> 0, day |-> 0]

ScheduleValues == DateTexts \cup {DateObject, Missing}

IsLeap(y) == (y % 4 = 0 /\ y % 100 # 0) \/ y % 400 = 0

DaysIn(y, mo) ==
    IF mo = 2 THEN (IF IsLeap(y) THEN 29 ELSE 28)
    ELSE IF mo \in {4, 6, 9, 11} THEN 30 ELSE 31

\* _is_valid_date: a str that datetime.strptime(date_str, '%Y-%m-%d') parses
is_valid_date(v) ==
    /\ v.kind = "str"
    /\ v.month \in 1..12
    /\ v.day \in 1..DaysIn(v.year, v.month)

\* datetime.strptime(..., '%Y-%m-%d'): a point in time; later dates are larger
Strptime(v) == (v.year * 12 + v.month) * 31 + v.day

MissingStart == "Missing required field: campaign.schedule.start_date"
MissingEnd == "Missing required field: campaign.schedule.end_date"
InvalidStart == "Invalid date format for campaign.schedule.start_date"
InvalidEnd == "Invalid date format for campaign.schedule.end_date"
EndNotAfterStart == "campaign.schedule.end_date must be after start_date"
OtherError == "an error of another section"

\* _validate_schedule for a schedule that is a dictionary
validate_schedule(s) ==
    LET e1 == IF s.start_date.kind = "missing" THEN <<MissingStart>>
              ELSE IF ~is_valid_date(s.start_date) THEN <<InvalidStart>>
              ELSE <<>>
        e2 == IF s.end_date.kind = "missing" THEN <<MissingEnd>>
              ELSE IF ~is_valid_date(s.end_date) THEN <<InvalidEnd>>
              ELSE <<>>
        e3 == IF /\ s.start_date.kind # "missing" /\ s.end_date.kind # "missing"
                 /\ is_valid_date(s.start_date) /\ is_valid_date(s.end_date)
                 /\ Strptime(s.end_date) < Strptime(s.start_date)
              THEN <<EndNotAfterStart>>
              ELSE <<>>
    IN  e1 \o e2 \o e3

InitSchedule ==
    /\ args = NoArgs
    /\ returned = FALSE
    /\ result = NoResult
    /\ campaign_file = "ok"
    /\ config = NoCampaign
    /\ min_match_count = DefaultMinMatchCount
    /\ deviations = 0
    /\ RunnerIdle
    /\ DriversIdle
    /\ CheckersIdle
    /\ ResolversIdle
    /\ \E sd \in ScheduleValues : \E ed \in ScheduleValues :
         schedule = [start_date |-> sd, end_date |-> ed]
    /\ validated = NotValidated

\* validate_file on an existing, loadable campaign file: the errors of the
\* schedule and of the other sections; valid when there is none
validate_file ==
    /\ ~validated.done
    /\ \E others \in {<<>>, <<OtherError>>} :
         LET errs == validate_schedule(schedule) \o others
         IN  validated' = [done |-> TRUE, is_valid |-> (Len(errs) = 0), errors |-> errs]
    /\ UNCHANGED <<detector, world, runner, exit_code, workflow, two_runs,
                   disk, localized, looked, reporting, requested_threshold, rotation,
                   written, validation, rmtree, processed_files, workflow_runs, event,
                   delivered, schedule, path_arg, existing, validator_path, compliance_path>>

NextSchedule ==
    validate_file

SpecSchedule == InitSchedule /\ [][NextSchedule]_vars

(***************************************************************************)
(* The campaign_file argument in the validator and in the compliance check *)
(***************************************************************************)
\* A path is absolute or not and has its names; a relative path names a file
\* under the working directory.
PathOf(absolute, parts) == [absolute |-> absolute, parts |-> parts]

Cwd == PathOf(TRUE, <<"work">>)

CampaignsDir == PathOf(FALSE, <<"input", "campaigns">>)

\* Path(a) / b
Join(a, b) == IF b.absolute THEN b ELSE PathOf(a.absolute, a.parts \o b.parts)

\* len(path.parts): the root of an absolute path is a part
NumParts(path) == Len(path.parts) + (IF path.absolute THEN 1 ELSE 0)

\* the file a path names
FileOf(path) == IF path.absolute THEN path ELSE Join(Cwd, path)

Exists(path) == FileOf(path) \in existing

Arguments ==
    { PathOf(FALSE, <<"c.yaml">>),
      PathOf(FALSE, <<"sub", "c.yaml">>),
      PathOf(FALSE, <<"input", "campaigns", "c.yaml">>),
      PathOf(TRUE, <<"work", "input", "campaigns", "c.yaml">>),
      PathOf(TRUE, <<"else", "c.yaml">>) }

Files ==
    { FileOf(a) : a \in Arguments } \cup { FileOf(Join(CampaignsDir, a)) : a \in Arguments }

\* CampaignValidator._resolve_file_path
resolve_file_path(path) ==
    IF path.absolute /\ Exists(path) THEN path
    ELSE IF NumParts(path) = 1 THEN Join(CampaignsDir, path)
    ELSE IF Exists(path) THEN path
    ELSE IF Exists(Join(CampaignsDir, path)) THEN Join(CampaignsDir, path)
    ELSE IF path.absolute THEN path
    ELSE Join(CampaignsDir, path)

\* check_campaign_compliance: campaign_path before its exists() test
compliance_campaign_path(path) ==
    IF ~path.absolute /\ NumParts(path) = 1
    THEN Join(PathOf(FALSE, <<"input", "campaigns">>), path)
    ELSE path

InitResolve ==
    /\ args = NoArgs
    /\ returned = FALSE
    /\ result = NoResult
    /\ campaign_file = "ok"
    /\ config = NoCampaign
    /\ min_match_count = DefaultMinMatchCount
    /\ deviations = 0
    /\ RunnerIdle
    /\ DriversIdle
    /\ CheckersIdle
    /\ ValidatorIdle
    /\ path_arg \in Arguments
    /\ existing \in SUBSET Files
    /\ validator_path = NoPath
    /\ compliance_path = NoPath

\* step 1 of the workflow: validate_file resolves the argument
ValidatorResolves ==
    /\ validator_path = NoPath
    /\ validator_path' = resolve_file_path(path_arg)
    /\ UNCHANGED <<detector, world, runner, exit_code, workflow, two_runs,
                   disk, localized, looked, reporting, requested_threshold, rotation,
                   written, validation, rmtree, processed_files, workflow_runs, event,
                   delivered, schedule, validated, path_arg, existing, compliance_path>>

\* step 6.5 of the workflow: check_campaign_compliance resolves the argument
ComplianceResolves ==
    /\ compliance_path = NoPath
    /\ compliance_path' = compliance_campaign_path(path_arg)
    /\ UNCHANGED <<detector, world, runner, exit_code, workflow, two_runs,
                   disk, localized, looked, reporting, requested_threshold, rotation,
                   written, validation, rmtree, processed_files, workflow_runs, event,
                   delivered, schedule, validated, path_arg, existing, validator_path>>

NextResolve ==
    \/ ValidatorResolves
    \/ ComplianceResolves

SpecResolve == InitResolve /\ [][NextResolve]_vars

(***************************************************************************)
(* Frame of a compliance run                                               *)
(***************************************************************************)
\* C25: a compliance run only reads: no step of check_campaign_compliance or
\* of check_logo_in_image creates, changes or deletes a file; and the result
\* of a triple's check is a function of that triple's logo file and candidate
\* image and of the run's min_match_count, whatever was checked before.
C25_RunOnlyReads ==
    /\ [](written = {})
    /\ [][ /\ written' = written
           /\ (pc = "Triple" /\ scene.campaign.kind # "absent")
              => /\ result' = check_logo_in_image(
                                 Input(scene.campaign, logo_file, scene.matches,
                                       scene.fit, scene.box, scene.raises,
                                       min_match_count, DefaultGoodMatchThreshold))
                 /\ Last(results').found = result'.found
                 /\ Last(results').match_count = result'.match_count
                 /\ Last(results').error = result'.error ]_vars

\* a run has returned after a check that ended in an error and a later check
\* that found the logo and located it, and nothing was written
C25_Witness ==
    /\ pc = "Done" /\ written = {}
    /\ \E i \in 1..Len(summary.results) : \E j \in 1..Len(summary.results) :
         /\ i < j
         /\ summary.results[i].error # None
         /\ summary.results[j].found
         /\ summary.results[j].location # NoLocation

(***************************************************************************)
(* Order and gates of CampaignWorkflow.run                                 *)
(***************************************************************************)
DocumentedOrder ==
    <<"cleanup", "download", "validate", "assets", "folders", "prompts",
      "images", "localize", "compliance", "report", "upload">>

PlaceOf(step) == CHOOSE i \in 1..Len(DocumentedOrder) : DocumentedOrder[i] = step

StepsRun == { steps[i] : i \in 1..Len(steps) }

AfterAssets ==
    {"folders", "prompts", "images", "localize", "compliance", "report", "upload"}

\* C26: run executes its steps in the documented order; when the campaign
\* validation of step 1 or the asset validation of step 2 fails, run has
\* returned False and no later step is ever run; and run returns True only
\* after the report step was run.
C26_OrderAndGates ==
    /\ [](\A i \in 1..Len(steps) : \A j \in 1..Len(steps) :
            i < j => PlaceOf(steps[i]) < PlaceOf(steps[j]))
    /\ [](validation.campaign = "invalid"
            => /\ wf_pc = "ReturnedFalse"
               /\ StepsRun \cap (AfterAssets \cup {"assets"}) = {})
    /\ [](validation.assets = "invalid"
            => /\ wf_pc = "ReturnedFalse"
               /\ StepsRun \cap AfterAssets = {})
    /\ [](wf_pc = "ReturnedTrue" => "report" \in StepsRun)

\* the asset validation failed after a valid campaign: run returned False
\* with step 2 as its last step
C26_Witness ==
    /\ wf_pc = "ReturnedFalse" /\ validation = [campaign |-> "valid", assets |-> "invalid"]
    /\ Len(steps) > 0 /\ steps[Len(steps)] = "assets"

(***************************************************************************)
(* The cleanup of ./output before step 1                                   *)
(***************************************************************************)
\* run returned False at the campaign validation or at the asset validation
StoppedAtValidation ==
    /\ wf_pc = "ReturnedFalse"
    /\ "invalid" \in {validation.campaign, validation.assets}

\* C30 as stated: whenever run stops at a validation, the ./output folder of
\* the previous run is gone.
C30_EarlierOutputRemoved ==
    StoppedAtValidation => output_dir = "absent"

\* C30: run calls shutil.rmtree on an existing ./output before step 1; when
\* run stops at a validation, the earlier output is gone unless rmtree
\* raised, and after a raise (a warning, run goes on) the folder is still
\* there, untouched or in part.
C30_RemovedUnlessRmtreeRaised ==
    /\ [][(wf_pc = "Cleanup" /\ output_dir = "present") => rmtree' \in RmtreeOutcomes]_vars
    /\ []("validate" \in StepsRun /\ "cleanup" \in StepsRun => rmtree \in RmtreeOutcomes)
    /\ [](StoppedAtValidation
            => /\ (rmtree \in {"not called", "removed"} => output_dir = "absent")
               /\ (rmtree \notin {"not called", "removed"} => output_dir = "present"))

\* an earlier output was removed and run then stopped at the campaign validation
C30_Witness ==
    /\ StoppedAtValidation
    /\ validation.campaign = "invalid"
    /\ output_dir = "absent" /\ rmtree = "removed"

(***************************************************************************)
(* One run per path                                                        *)
(***************************************************************************)
\* C27: whatever on_created and on_modified events one handler gets,
\* run_workflow_processor is called at most once per file path; the path is
\* in processed_files when its run starts and stays there, whatever the run's
\* outcome; an event for a directory or for a file whose name does not end in
\* .yaml or .yml, and an event for a path already processed, starts no run.
C27_OneRunPerPath ==
    /\ [](\A i \in 1..Len(workflow_runs) : \A j \in 1..Len(workflow_runs) :
            i # j => workflow_runs[i].file_path # workflow_runs[j].file_path)
    /\ [](\A i \in 1..Len(workflow_runs) :
            /\ workflow_runs[i].file_path \in workflow_runs[i].processed_at_start
            /\ workflow_runs[i].file_path \in processed_files
            /\ IsYaml(workflow_runs[i].file_path))
    /\ [][processed_files \subseteq processed_files']_vars
    /\ [][(delivered' = delivered + 1
            /\ (event'.is_directory \/ ~IsYaml(event'.src_path)
                  \/ event'.src_path \in processed_files))
          => workflow_runs' = workflow_runs]_vars

\* a run timed out, and a later modification of the same file was delivered
\* without a second run
C27_Witness ==
    /\ Len(workflow_runs) = 1
    /\ workflow_runs[1].outcome = "timeout"
    /\ delivered >= 2
    /\ event # NoEvent
    /\ event.kind = "modified" /\ ~event.is_directory
    /\ event.src_path = workflow_runs[1].file_path

(***************************************************************************)
(* Schedule validation and path resolution                                 *)
(***************************************************************************)
\* C28: for every pair of valid YYYY-MM-DD dates whose end_date is not after
\* the start_date, validate_file reports 'campaign.schedule.end_date must be
\* after start_date' and returns is_valid = false.
C28_EndMustBeAfterStart ==
    (/\ validated.done
     /\ is_valid_date(schedule.start_date) /\ is_valid_date(schedule.end_date)
     /\ ~(Strptime(schedule.end_date) > Strptime(schedule.start_date)))
    => /\ \E i \in 1..Len(validated.errors) : validated.errors[i] = EndNotAfterStart
       /\ ~validated.is_valid

\* C29: an argument that the validator resolves to an existing file is
\* resolved to the same file by check_campaign_compliance.
C29_SameFile ==
    (/\ validator_path # NoPath /\ compliance_path # NoPath
     /\ Exists(validator_path))
    => FileOf(compliance_path) = FileOf(validator_path)

====
